---- MODULE Spec2Model ----
(***************************************************************************)
(* A model of the RocksDB-backed storage adapter of db-rocks: the typed    *)
(* tables and their codecs, the engine's column families, the transaction  *)
(* with its write batch, and the cursors.                                  *)
(***************************************************************************)
EXTENDS Integers, Sequences, FiniteSets, TLC

VARIABLES engine, txs, cur, last, trace

vars == <<engine, txs, cur, last, trace>>

-----------------------------------------------------------------------------
(* Bounds of the model. *)

\* number of operations staged in the batches of the active transactions
MaxStaged == 2
\* number of insertions that build one post-state diff
MaxDiff == 2
\* length of the nibble paths whose encodings are compared
MaxPathLen == 2

(* Program constants. *)
B256Len == 32
DELIMITER == 255
MaxNibble == 15

-----------------------------------------------------------------------------
(* Option<T> is a tuple of length 0 or 1. *)
NoneV == <<>>
Some(x) == <<x>>
IsSome(o) == Len(o) = 1
Unwrap(o) == o[1]

(* Result<T, DatabaseError> *)
Ok(v) == [ok |-> TRUE, val |-> v]
Err(e) == [ok |-> FALSE, val |-> <<e>>]

-----------------------------------------------------------------------------
(* Typed keys and values of the two tables. *)

AccountTrieTable == "account_trie"
StorageTrieTable == "storage_trie"
Tables == {AccountTrieTable, StorageTrieTable}
\* the hashed-storage table of the node, read by the hashed-storage cursor
HashedStorages == "HashedStorages"
\* the hashed-account table of the node, read by the hashed-account cursor
HashedAccounts == "HashedAccounts"
\* the raw-trie table: node hash to the bytes of the node
TrieTable == "trie"
DUPSORT(T) == T \in {StorageTrieTable, HashedStorages}

B256(b) == [i \in 1..B256Len |-> b]

\* nibble paths used as account-trie keys
NibbleKeys == {<<>>, <<1>>, <<1, 2>>, <<2>>}
\* branch nodes, told apart by their root hash
BranchNodes == {1, 2}
\* hashed addresses used as storage-trie keys
HashKeys == {B256(1), B256(2)}
\* nibble paths used as storage-trie sub-keys
SubKeys == {<<5>>, <<6>>}
TrieNodeValues == {[nibbles |-> s, node |-> B256(1)] : s \in SubKeys}

\* hashed slots and the storage entries of the hashed-storage table
SlotKeys == {B256(3), B256(4)}
StorageEntries == {[key |-> s, value |-> v] : s \in SlotKeys, v \in {1, 2}}

KeysOf(T) == IF T = AccountTrieTable THEN NibbleKeys ELSE HashKeys
\* accounts, told apart by their nonce
Accounts == {1, 2}

ValuesOf(T) == IF T = AccountTrieTable THEN BranchNodes
               ELSE IF T = StorageTrieTable THEN TrieNodeValues
               ELSE IF T = HashedAccounts THEN Accounts
               ELSE StorageEntries

(* two nibbles per byte, an odd last nibble padded with zero *)
EncodeNibblesPacked(n) ==
    [i \in 1..((Len(n) + 1) \div 2) |->
        16 * n[2 * i - 1] + (IF 2 * i <= Len(n) THEN n[2 * i] ELSE 0)]

(* TrieNibbles::encode: one nibble per byte. *)
EncodeNibbles(n) == [i \in 1..Len(n) |-> n[i]]

(* TrieNibbles::decode: rejects any byte above 0x0F. *)
DecodeNibbles(bytes) ==
    IF \E i \in 1..Len(bytes) : bytes[i] > MaxNibble
    THEN Err("Decode")
    ELSE Ok([i \in 1..Len(bytes) |-> bytes[i]])

(* B256::encode / B256::decode: the 32 bytes, nothing else. *)
EncodeB256(h) == [i \in 1..B256Len |-> h[i]]
DecodeB256(bytes) ==
    IF Len(bytes) # B256Len THEN Err("Decode") ELSE Ok(bytes)

EncodeKey(T, k) == IF T = AccountTrieTable THEN EncodeNibbles(k) ELSE EncodeB256(k)
DecodeKey(T, bytes) ==
    IF T = AccountTrieTable THEN DecodeNibbles(bytes) ELSE DecodeB256(bytes)

(* Compress / Decompress of BranchNodeCompact (one byte names the node). *)
CompressBranch(v) == <<v>>
DecompressBranch(bytes) == IF Len(bytes) # 1 THEN Err("Decode") ELSE Ok(bytes[1])

(* TrieNodeValue::compress_to_buf: the nibbles, then the 32-byte node hash. *)
CompressTrieNodeValue(v) == EncodeNibbles(v.nibbles) \o v.node

(* TrieNodeValue::decompress: the last 32 bytes are the hash.  Empty input *)
(* is a Decode error; on 1..31 bytes `bytes.len() - 32` underflows and the  *)
(* call panics instead of returning.                                        *)
Panic == [ok |-> FALSE, val |-> <<"panic">>]

DecompressTrieNodeValue(bytes) ==
    IF bytes = <<>> THEN Err("Decode")
    ELSE IF Len(bytes) < B256Len THEN Panic
    ELSE Ok([nibbles |-> SubSeq(bytes, 1, Len(bytes) - B256Len),
             node |-> SubSeq(bytes, Len(bytes) - B256Len + 1, Len(bytes))])

(* StorageEntry: the 32 bytes of the slot, then the value without its *)
(* leading zero bytes; reading fewer than 32 bytes panics.             *)
CompressStorageEntry(e) == e.key \o (IF e.value = 0 THEN <<>> ELSE <<e.value>>)
DecompressStorageEntry(bytes) ==
    IF Len(bytes) < B256Len THEN Panic
    ELSE Ok([key |-> SubSeq(bytes, 1, B256Len),
             value |-> IF Len(bytes) = B256Len THEN 0 ELSE bytes[Len(bytes)]])

(* Account (one byte names the account). *)
CompressAccount(v) == <<v>>
DecompressAccount(bytes) == IF Len(bytes) # 1 THEN Err("Decode") ELSE Ok(bytes[1])

Compress(T, v) ==
    IF T = AccountTrieTable THEN CompressBranch(v)
    ELSE IF T = StorageTrieTable THEN CompressTrieNodeValue(v)
    ELSE IF T = HashedAccounts THEN CompressAccount(v)
    ELSE IF T = TrieTable THEN v
    ELSE CompressStorageEntry(v)
Decompress(T, bytes) ==
    IF T = AccountTrieTable THEN DecompressBranch(bytes)
    ELSE IF T = StorageTrieTable THEN DecompressTrieNodeValue(bytes)
    ELSE IF T = HashedAccounts THEN DecompressAccount(bytes)
    ELSE IF T = TrieTable THEN Ok(bytes)
    ELSE DecompressStorageEntry(bytes)

-----------------------------------------------------------------------------
(* The engine: one column family per table, a map from key bytes to value  *)
(* bytes, iterated in bytewise order.                                      *)

RECURSIVE BytesLess(_, _)
BytesLess(a, b) ==
    IF a = <<>> THEN b # <<>>
    ELSE IF b = <<>> THEN FALSE
    ELSE IF a[1] # b[1] THEN a[1] < b[1]
    ELSE BytesLess(Tail(a), Tail(b))

BytesLeq(a, b) == a = b \/ BytesLess(a, b)

MinKey(S) == CHOOSE k \in S : \A j \in S : BytesLeq(k, j)
MaxKey(S) == CHOOSE k \in S : \A j \in S : BytesLeq(j, k)

RECURSIVE Ascending(_)
Ascending(S) == IF S = {} THEN <<>> ELSE <<MinKey(S)>> \o Ascending(S \ {MinKey(S)})

RECURSIVE Descending(_)
Descending(S) == IF S = {} THEN <<>> ELSE <<MaxKey(S)>> \o Descending(S \ {MaxKey(S)})

EmptyCf == [k \in {} |-> <<>>]

CfPut(cf, k, v) == [x \in DOMAIN cf \cup {k} |-> IF x = k THEN v ELSE cf[x]]
CfDelete(cf, k) == [x \in DOMAIN cf \ {k} |-> cf[x]]
CfDeleteRange(cf, from, to) ==
    [x \in {y \in DOMAIN cf : ~(BytesLeq(from, y) /\ BytesLess(y, to))} |-> cf[x]]
CfGet(cf, k) == IF k \in DOMAIN cf THEN Some(cf[k]) ELSE NoneV

(* DB::iterator_cf_opt: the keys an iterator yields, in the order it yields them. *)
IterStart(cf) == Ascending(DOMAIN cf)
IterEnd(cf) == Descending(DOMAIN cf)
IterFrom(cf, k, dir) ==
    IF dir = "Forward"
    THEN Ascending({x \in DOMAIN cf : BytesLeq(k, x)})
    ELSE Descending({x \in DOMAIN cf : BytesLeq(x, k)})

(* Iterator::next on a fresh iterator, and after one skipped item. *)
IterItem(cf, it, n) == IF Len(it) >= n THEN Some(<<it[n], cf[it[n]]>>) ELSE NoneV

-----------------------------------------------------------------------------
(* Write batch: a sequence of operations, applied in append order. *)

PutOp(T, kb, vb) == [op |-> "put", table |-> T, key |-> kb, val |-> vb]
DeleteOp(T, kb) == [op |-> "delete", table |-> T, key |-> kb, val |-> <<>>]
ClearOp(T) == [op |-> "clear", table |-> T, key |-> <<>>, val |-> <<>>]

ClearStart == <<0>>
ClearEnd == [i \in 1..B256Len |-> 255]

ApplyOp(db, o) ==
    IF o.op = "put" THEN [db EXCEPT ![o.table] = CfPut(@, o.key, o.val)]
    ELSE IF o.op = "delete" THEN [db EXCEPT ![o.table] = CfDelete(@, o.key)]
    ELSE [db EXCEPT ![o.table] = CfDeleteRange(@, ClearStart, ClearEnd)]

RECURSIVE ApplyBatchNewestFirst(_, _)
ApplyBatchNewestFirst(db, batch) ==
    IF batch = <<>> THEN db
    ELSE ApplyBatchNewestFirst(ApplyOp(db, batch[Len(batch)]), SubSeq(batch, 1, Len(batch) - 1))

RECURSIVE ApplyBatch(_, _)
ApplyBatch(db, batch) ==
    IF batch = <<>> THEN db ELSE ApplyBatch(ApplyOp(db, Head(batch)), Tail(batch))

-----------------------------------------------------------------------------
(* Cursors.  A cursor keeps the key and value bytes it returned last and   *)
(* opens a fresh engine iterator for every operation.                      *)

NoCursor == [open |-> FALSE, table |-> AccountTrieTable, tx |-> 0, dup |-> FALSE,
             current_item |-> NoneV, current_key |-> NoneV]

(* Decoding of the pair an iterator yielded; codec errors are mapped to Other. *)
DecodeEntry(T, item) ==
    LET k == DecodeKey(T, item[1])
        v == Decompress(T, item[2])
    IN  IF ~k.ok THEN Err("Other")
        ELSE IF v = Panic THEN Panic
        ELSE IF ~v.ok THEN Err("Other")
        ELSE Ok(Some(<<k.val, v.val>>))

(* The common tail of reset_to_first, reset_to_key, reset_to_last. *)
Position(c, item) ==
    IF IsSome(item)
    THEN [cur |-> [c EXCEPT !.current_item = item], ret |-> DecodeEntry(c.table, Unwrap(item))]
    ELSE [cur |-> [c EXCEPT !.current_item = NoneV], ret |-> Ok(NoneV)]

reset_to_first(db, c) ==
    Position(c, IterItem(db[c.table], IterStart(db[c.table]), 1))

reset_to_key(db, c, key_bytes, direction) ==
    Position(c, IterItem(db[c.table], IterFrom(db[c.table], key_bytes, direction), 1))

reset_to_last(db, c) ==
    Position(c, IterItem(db[c.table], IterEnd(db[c.table]), 1))

move_to_next_no_skip(db, c) ==
    IF IsSome(c.current_item)
    THEN Position(c, IterItem(db[c.table],
                              IterFrom(db[c.table], Unwrap(c.current_item)[1], "Forward"), 1))
    ELSE reset_to_first(db, c)

move_to_next(db, c) ==
    IF IsSome(c.current_item)
    THEN Position(c, IterItem(db[c.table],
                              IterFrom(db[c.table], Unwrap(c.current_item)[1], "Forward"), 2))
    ELSE reset_to_first(db, c)

move_to_prev_stay(db, c) ==
    IF IsSome(c.current_item)
    THEN Position(c, IterItem(db[c.table],
                              IterFrom(db[c.table], Unwrap(c.current_item)[1], "Reverse"), 2))
    ELSE Position(c, NoneV)

move_to_prev(db, c) ==
    IF IsSome(c.current_item)
    THEN Position(c, IterItem(db[c.table],
                              IterFrom(db[c.table], Unwrap(c.current_item)[1], "Reverse"), 2))
    ELSE reset_to_last(db, c)

(* RocksCursor::new positions the cursor on the first item. *)
NewCursor(db, T, t) ==
    reset_to_first(db, [open |-> TRUE, table |-> T, tx |-> t, dup |-> FALSE,
                        current_item |-> NoneV, current_key |-> NoneV]).cur

(* RocksDupCursor::new: an inner cursor and no current key. *)
NewDupCursor(db, T, t) == [NewCursor(db, T, t) EXCEPT !.dup = TRUE]

(* DbCursorRO for RocksCursor *)
first(db, c) == reset_to_first(db, c)
seek_backward(db, c, key) == reset_to_key(db, c, EncodeKey(c.table, key), "Reverse")
seek(db, c, key) == reset_to_key(db, c, EncodeKey(c.table, key), "Forward")
seek_exact_unchecked(db, c, key) == reset_to_key(db, c, EncodeKey(c.table, key), "Forward")
seek_exact(db, c, key) ==
    LET r == reset_to_key(db, c, EncodeKey(c.table, key), "Forward")
    IN  IF ~r.ret.ok THEN r
        ELSE IF IsSome(r.ret.val) /\ Unwrap(r.ret.val)[1] = key THEN r
        ELSE [cur |-> r.cur, ret |-> Ok(NoneV)]
next(db, c) == move_to_next(db, c)
prev(db, c) == move_to_prev(db, c)
last_(db, c) == reset_to_last(db, c)
current(db, c) ==
    IF IsSome(c.current_item)
    THEN [cur |-> c, ret |-> DecodeEntry(c.table, Unwrap(c.current_item))]
    ELSE [cur |-> c, ret |-> Ok(NoneV)]

(* ThreadSafeRocksCursor / ThreadSafeRocksDupCursor, the cursors a transaction *)
(* hands out: every method takes the cursor's lock, performs the operation of  *)
(* the cursor it wraps and releases the lock, so the outcome is the wrapped    *)
(* cursor's and one operation is one step.                                     *)
ThreadSafe(r) == r

(* DbCursorRO for RocksDupCursor: the inner operation, then the current key *)
(* becomes the key of the entry returned.                                    *)
TrackKey(r) ==
    IF ~r.ret.ok THEN r
    ELSE [cur |-> [r.cur EXCEPT !.current_key =
                       IF IsSome(r.ret.val) THEN Some(Unwrap(r.ret.val)[1]) ELSE NoneV],
          ret |-> r.ret]

dup_first(db, c) == TrackKey(first(db, c))
dup_seek(db, c, key) == TrackKey(seek(db, c, key))
dup_next(db, c) == TrackKey(next(db, c))
dup_prev(db, c) == TrackKey(prev(db, c))
dup_last(db, c) == TrackKey(last_(db, c))
dup_seek_exact(db, c, key) ==
    LET r == seek_exact(db, c, key)
    IN  IF ~r.ret.ok THEN r
        ELSE [cur |-> [r.cur EXCEPT !.current_key =
                           IF IsSome(r.ret.val) THEN Some(key) ELSE NoneV],
              ret |-> r.ret]

(* DupSortHelper::create_composite_key *)
EncodeSubKey(T, subkey) ==
    IF T = HashedStorages THEN EncodeB256(subkey) ELSE EncodeNibbles(subkey)

create_composite_key(T, key, subkey) ==
    EncodeKey(T, key) \o <<DELIMITER>> \o EncodeSubKey(T, subkey)

(* DupSortHelper::encode_composite_key: the composite bytes decoded as a key *)
(* of the table, or else their first 32 bytes.                               *)
encode_composite_key(T, composite_key_vec) ==
    LET d == DecodeKey(T, composite_key_vec)
    IN  IF d.ok THEN d
        ELSE IF Len(composite_key_vec) >= B256Len
             THEN LET b == DecodeB256(SubSeq(composite_key_vec, 1, B256Len))
                  IN  IF b.ok
                      THEN LET k == DecodeKey(T, EncodeB256(b.val))
                           IN  IF k.ok THEN k ELSE Err("Decode")
                      ELSE Err("Decode")
             ELSE Err("Decode")

(* RocksDupCursor::seek_by_key_subkey *)
seek_by_key_subkey(db, c, key, subkey) ==
    LET encoded_key == encode_composite_key(c.table, create_composite_key(c.table, key, subkey))
    IN  IF ~encoded_key.ok THEN [cur |-> c, ret |-> encoded_key]
        ELSE LET r == seek_exact(db, c, encoded_key.val)
             IN  IF ~r.ret.ok THEN r
                 ELSE IF IsSome(r.ret.val)
                      THEN [cur |-> [r.cur EXCEPT !.current_key = Some(key)],
                            ret |-> Ok(Some(Unwrap(r.ret.val)[2]))]
                      ELSE [cur |-> r.cur, ret |-> Ok(NoneV)]

(* RocksDupCursor::current *)
dup_current(db, c) == current(db, c)

(* RocksDupCursor::next_dup: the inner cursor moves first, then the key of *)
(* the entry it reached is compared with the current key.                   *)
next_dup(db, c) ==
    IF IsSome(c.current_key)
    THEN LET r == next(db, c)
         IN  IF ~r.ret.ok THEN r
             ELSE IF IsSome(r.ret.val) /\ Unwrap(r.ret.val)[1] = Unwrap(c.current_key)
                  THEN [cur |-> [r.cur EXCEPT !.current_key = Some(Unwrap(r.ret.val)[1])],
                        ret |-> r.ret]
                  ELSE [cur |-> r.cur, ret |-> Ok(NoneV)]
    ELSE [cur |-> c, ret |-> Ok(NoneV)]

(* RocksDupCursor::next_no_dup: next() of the dup cursor until the key *)
(* differs from the current key saved on entry.                         *)
RECURSIVE next_no_dup_loop(_, _, _)
next_no_dup_loop(db, c, current_key_clone) ==
    LET r == dup_next(db, c)
    IN  IF ~r.ret.ok THEN r
        ELSE IF IsSome(r.ret.val)
             THEN IF Some(Unwrap(r.ret.val)[1]) # current_key_clone
                  THEN LET n == [r.cur EXCEPT !.current_key = Some(Unwrap(r.ret.val)[1])]
                       IN  [cur |-> n, ret |-> dup_current(db, n).ret]
                  ELSE next_no_dup_loop(db, r.cur, current_key_clone)
             ELSE [cur |-> r.cur, ret |-> Ok(NoneV)]

next_no_dup_first_entry(db, c) == dup_next(db, c)

next_no_dup(db, c) == next_no_dup_loop(db, c, c.current_key)

(* DbCursorRW for RocksCursor: the writes go to the engine the cursor holds. *)
upsert(db, c, key, value) ==
    [db |-> [db EXCEPT ![c.table] = CfPut(@, EncodeKey(c.table, key), Compress(c.table, value))],
     cur |-> c, ret |-> Ok(NoneV)]

insert(db, c, key, value) ==
    LET r == seek_exact(db, c, key)
    IN  IF ~r.ret.ok THEN [db |-> db, cur |-> r.cur, ret |-> r.ret]
        ELSE IF IsSome(r.ret.val) THEN [db |-> db, cur |-> r.cur, ret |-> Err("Other")]
        ELSE upsert(db, r.cur, key, value)

append(db, c, key, value) == upsert(db, c, key, value)

delete_current(db, c) ==
    LET r == current(db, c)
    IN  IF ~r.ret.ok THEN [db |-> db, cur |-> c, ret |-> r.ret]
        ELSE IF IsSome(r.ret.val)
             THEN LET db2 == [db EXCEPT ![c.table] =
                                 CfDelete(@, EncodeKey(c.table, Unwrap(r.ret.val)[1]))]
                      n == next(db2, c)
                  IN  [db |-> db2, cur |-> n.cur,
                       ret |-> IF n.ret.ok THEN Ok(NoneV) ELSE n.ret]
             ELSE [db |-> db, cur |-> c, ret |-> Ok(NoneV)]

(* DbDupCursorRW for RocksDupCursor *)
append_dup(db, c, key, value) == append(db, c, key, value)

RECURSIVE delete_current_duplicates_loop(_, _, _)
delete_current_duplicates_loop(db, c, key) ==
    LET r == current(db, c)
    IN  IF ~r.ret.ok THEN [db |-> db, cur |-> c, ret |-> r.ret]
        ELSE IF IsSome(r.ret.val) /\ Unwrap(r.ret.val)[1] = key
             THEN LET d == delete_current(db, c)
                  IN  IF ~d.ret.ok THEN d
                      ELSE delete_current_duplicates_loop(d.db, d.cur, key)
             ELSE [db |-> db, cur |-> c, ret |-> Ok(NoneV)]

delete_current_duplicates(db, c) ==
    IF IsSome(c.current_key)
    THEN delete_current_duplicates_loop(db, c, Unwrap(c.current_key))
    ELSE [db |-> db, cur |-> c, ret |-> Ok(NoneV)]

-----------------------------------------------------------------------------
(* Transactions. *)

\* the transactions created in one run
TxIds == {1, 2}

NoTx == [state |-> "none", write |-> FALSE, batch |-> <<>>]

Active(t) == txs[t].state = "active"

RECURSIVE SumLen(_, _)
SumLen(f, S) ==
    IF S = {} THEN 0
    ELSE LET x == CHOOSE y \in S : TRUE IN Len(f[x].batch) + SumLen(f, S \ {x})

Staged == SumLen(txs, {t \in TxIds : txs[t].state = "active"})

Rec(op, t, T, kb, ret, batch) ==
    [op |-> op, tx |-> t, table |-> T, key |-> kb, sub |-> <<>>, ret |-> ret,
     pre |-> engine, batch |-> batch]

(* The database a read of a transaction goes to: the engine itself (self.db), *)
(* whatever the transaction's batch holds.                                    *)
ReadViewOverlay(db, batch) == ApplyBatch(db, batch)
ReadView(db, batch) == db

(* RocksTransaction::get *)
TxGet(db, T, key) ==
    LET r == CfGet(db[T], EncodeKey(T, key))
    IN  IF IsSome(r)
        THEN LET v == Decompress(T, Unwrap(r))
             IN  IF v.ok THEN Ok(Some(v.val)) ELSE v
        ELSE Ok(NoneV)

(* RocksTransaction::new *)
Begin(t, w) ==
    /\ txs[t].state = "none"
    /\ txs' = [txs EXCEPT ![t] = [state |-> "active", write |-> w, batch |-> <<>>]]
    /\ last' = Rec("begin", t, AccountTrieTable, <<>>, Ok(NoneV), <<>>)
    /\ UNCHANGED <<engine, cur, trace>>

(* The batch after put / delete / clear have appended their operation. *)
StagePut(batch, T, key, value) ==
    Append(batch, PutOp(T, EncodeKey(T, key), Compress(T, value)))
StageDelete(batch, T, key) == Append(batch, DeleteOp(T, EncodeKey(T, key)))
StageClear(batch, T) == Append(batch, ClearOp(T))

Put(t, T, key, value) ==
    /\ Active(t) /\ txs[t].write
    /\ Staged < MaxStaged
    /\ txs' = [txs EXCEPT ![t].batch = StagePut(@, T, key, value)]
    /\ last' = Rec("put", t, AccountTrieTable, <<>>, Ok(NoneV), <<>>)
    /\ UNCHANGED <<engine, cur, trace>>

Delete(t, T, key) ==
    /\ Active(t) /\ txs[t].write
    /\ Staged < MaxStaged
    /\ txs' = [txs EXCEPT ![t].batch = StageDelete(@, T, key)]
    /\ last' = Rec("delete", t, AccountTrieTable, <<>>, Ok(NoneV), <<>>)
    /\ UNCHANGED <<engine, cur, trace>>

Clear(t, T) ==
    /\ Active(t) /\ txs[t].write
    /\ Staged < MaxStaged
    /\ txs' = [txs EXCEPT ![t].batch = StageClear(@, T)]
    /\ last' = Rec("clear", t, AccountTrieTable, <<>>, Ok(NoneV), <<>>)
    /\ UNCHANGED <<engine, cur, trace>>

Get(t, T, key) ==
    /\ Active(t)
    /\ last' = Rec("get", t, T, EncodeKey(T, key), TxGet(ReadView(engine, txs[t].batch), T, key), <<>>)
    /\ UNCHANGED <<engine, txs, cur, trace>>

(* cursor_read followed by one seek_exact on the new cursor *)
ReadSeekExact(t, T, key) ==
    /\ Active(t)
    /\ last' = Rec("cursor_seek_exact", t, T, EncodeKey(T, key),
                   ThreadSafe(seek_exact(ReadView(engine, txs[t].batch),
                                         NewCursor(ReadView(engine, txs[t].batch), T, t),
                                         key)).ret, <<>>)
    /\ UNCHANGED <<engine, txs, cur, trace>>

(* What db.write_opt leaves in the engine when it succeeds. *)
CommitWritePartial(db, batch) == IF batch = <<>> THEN db ELSE ApplyOp(db, batch[1])
CommitWrite(db, batch) == ApplyBatch(db, batch)

Commit(t) ==
    /\ Active(t)
    /\ engine' = IF txs[t].write THEN CommitWrite(engine, txs[t].batch) ELSE engine
    /\ txs' = [txs EXCEPT ![t] = [state |-> "committed", write |-> @.write, batch |-> <<>>]]
    /\ last' = Rec("commit", t, AccountTrieTable, <<>>, Ok(NoneV), txs[t].batch)
    /\ UNCHANGED <<cur, trace>>

(* db.write_opt fails: the engine rejects the whole batch. *)
CommitFails(t) ==
    /\ Active(t) /\ txs[t].write
    /\ txs' = [txs EXCEPT ![t] = [state |-> "failed", write |-> TRUE, batch |-> <<>>]]
    /\ last' = Rec("commit", t, AccountTrieTable, <<>>, Err("Other"), txs[t].batch)
    /\ UNCHANGED <<engine, cur, trace>>

(* What abort leaves in the engine: it only drops the transaction, and with *)
(* it the batch; a transaction dropped without commit ends the same way.    *)
AbortWriteApplies(db, batch) == ApplyBatch(db, batch)
AbortWrite(db, batch) == db

Abort(t) ==
    /\ Active(t)
    /\ engine' = AbortWrite(engine, txs[t].batch)
    /\ txs' = [txs EXCEPT ![t] = [state |-> "aborted", write |-> @.write, batch |-> <<>>]]
    /\ last' = Rec("abort", t, AccountTrieTable, <<>>, Ok(NoneV), txs[t].batch)
    /\ UNCHANGED <<cur, trace>>

-----------------------------------------------------------------------------
(* Inputs of the transaction specification. *)
TxKeys(T) == IF T = AccountTrieTable THEN {<<>>, <<1>>} ELSE {B256(1)}

NoTrace == [mode |-> "none", seq |-> <<>>, done |-> FALSE, pos |-> NoneV, known |-> "no"]

Init ==
    /\ engine = [T \in Tables |-> EmptyCf]
    /\ txs = [t \in TxIds |-> NoTx]
    /\ cur = NoCursor
    /\ last = [op |-> "init", tx |-> 0, table |-> AccountTrieTable, key |-> <<>>,
               sub |-> <<>>, ret |-> Ok(NoneV), pre |-> [T \in Tables |-> EmptyCf],
               batch |-> <<>>]
    /\ trace = NoTrace

Next ==
    \/ \E t \in TxIds, w \in BOOLEAN : Begin(t, w)
    \/ \E t \in TxIds, T \in Tables : \E k \in TxKeys(T), v \in ValuesOf(T) : Put(t, T, k, v)
    \/ \E t \in TxIds, T \in Tables : \E k \in TxKeys(T) : Delete(t, T, k)
    \/ \E t \in TxIds, T \in Tables : Clear(t, T)
    \/ \E t \in TxIds, T \in Tables : \E k \in TxKeys(T) : Get(t, T, k)
    \/ \E t \in TxIds, T \in Tables : \E k \in TxKeys(T) : ReadSeekExact(t, T, k)
    \/ \E t \in TxIds : Commit(t)
    \/ \E t \in TxIds : CommitFails(t)
    \/ \E t \in TxIds : Abort(t)

Spec == Init /\ [][Next]_vars

-----------------------------------------------------------------------------
(* Properties of the transaction. *)

AllKeyBytes(T) == {EncodeKey(T, k) : k \in KeysOf(T)}

InClearRange(kb) == BytesLeq(ClearStart, kb) /\ BytesLess(kb, ClearEnd)

Touches(o, T, kb) ==
    /\ o.table = T
    /\ \/ o.op \in {"put", "delete"} /\ o.key = kb
       \/ o.op = "clear" /\ InClearRange(kb)

\* index of the last operation of the batch on key kb of table T, 0 if none
LastTouch(batch, T, kb) ==
    LET I == {i \in 1..Len(batch) : Touches(batch[i], T, kb)}
    IN  IF I = {} THEN 0 ELSE CHOOSE i \in I : \A j \in I : j <= i

\* the bytes a key holds once the batch is applied on top of pre
Expected(pre, batch, T, kb) ==
    LET i == LastTouch(batch, T, kb)
    IN  IF i = 0 THEN CfGet(pre[T], kb)
        ELSE IF batch[i].op = "put" THEN Some(batch[i].val)
        ELSE NoneV

\* the typed result of a get that finds the bytes held
TypedGet(T, held) ==
    IF IsSome(held)
    THEN LET v == CHOOSE x \in ValuesOf(T) : Compress(T, x) = Unwrap(held) IN Ok(Some(v))
    ELSE Ok(NoneV)

HasClear(batch, T) == \E i \in 1..Len(batch) : batch[i].op = "clear" /\ batch[i].table = T

CommittedOk == last.op = "commit" /\ last.ret.ok

\* C1: after a successful commit a get returns, for every key, the value of
\* the last staged put of the key, None when the last staged operation on the
\* key was a delete, and the previous value when the batch of puts and
\* deletes did not touch the key.
C1_CommitAppliesInOrder ==
    CommittedOk =>
        \A T \in Tables : ~HasClear(last.batch, T) =>
            \A k \in KeysOf(T) :
                TxGet(engine, T, k)
                    = TypedGet(T, Expected(last.pre, last.batch, T, EncodeKey(T, k)))

C1_Witness ==
    /\ CommittedOk
    /\ Len(last.batch) = 2
    /\ last.batch[1].op = "put" /\ last.batch[2].op = "put"
    /\ last.batch[1].table = AccountTrieTable /\ last.batch[2].table = AccountTrieTable
    /\ last.batch[1].key = last.batch[2].key
    /\ last.batch[1].val # last.batch[2].val
    /\ \E kb \in DOMAIN last.pre[AccountTrieTable] : kb # last.batch[1].key

\* C2: abort, or a drop without commit, leaves every key as it was: a get
\* returns None for a key that was absent and the unchanged value otherwise.
C2_AbortDiscards ==
    last.op = "abort" =>
        \A T \in Tables : \A k \in KeysOf(T) :
            TxGet(engine, T, k) = TypedGet(T, CfGet(last.pre[T], EncodeKey(T, k)))

C2_Witness ==
    /\ last.op = "abort"
    /\ \E i \in 1..Len(last.batch) :
          /\ last.batch[i].op = "put"
          /\ last.batch[i].key \notin DOMAIN engine[last.batch[i].table]
    /\ \E i \in 1..Len(last.batch) :
          /\ last.batch[i].op = "delete"
          /\ last.batch[i].key \in DOMAIN engine[last.batch[i].table]

\* C4: a commit applies the whole batch or nothing: the engine holds either
\* the result of all the operations of the batch, or, when commit returned an
\* error, exactly what it held before.
C4_CommitAtomic ==
    last.op = "commit" =>
        IF last.ret.ok
        THEN \A T \in Tables :
                /\ DOMAIN engine[T] \subseteq AllKeyBytes(T)
                /\ \A kb \in AllKeyBytes(T) :
                      CfGet(engine[T], kb) = Expected(last.pre, last.batch, T, kb)
        ELSE engine = last.pre

C4_Witness ==
    /\ last.op = "commit"
    /\ Len(last.batch) = 2
    /\ last.batch[1].key # last.batch[2].key
    /\ last.batch[1].op = "put" /\ last.batch[2].op = "put"
    /\ last.ret.ok

\* C5: a read through a transaction that has staged writes returns what the
\* engine holds, as if the staged operations had not been issued.
C5_StagedInvisibleToOwnReads ==
    /\ last.op = "get" /\ txs[last.tx].batch # <<>> =>
          last.ret = TypedGet(last.table, CfGet(engine[last.table], last.key))
    /\ last.op = "cursor_seek_exact" /\ txs[last.tx].batch # <<>> =>
          LET held == CfGet(engine[last.table], last.key)
              k == CHOOSE x \in KeysOf(last.table) : EncodeKey(last.table, x) = last.key
          IN  IF IsSome(held)
              THEN last.ret = Ok(Some(<<k, Unwrap(TypedGet(last.table, held).val)>>))
              ELSE last.ret = Ok(NoneV)

C5_Witness ==
    /\ last.op = "get"
    /\ last.ret = Ok(NoneV)
    /\ \E i \in 1..Len(txs[last.tx].batch) :
          /\ txs[last.tx].batch[i].op = "put"
          /\ txs[last.tx].batch[i].table = last.table
          /\ txs[last.tx].batch[i].key = last.key

\* the (logical key, sub-key) entries a dup-sort column family holds
DupEntries(cf) == {<<kb, Decompress(StorageTrieTable, cf[kb]).val.nibbles>> : kb \in DOMAIN cf}

\* C9: values put under one logical key with distinct sub-keys are both
\* stored after the commit; the later one does not replace the earlier one.
C9_DupSortKeepsBothSubKeys ==
    CommittedOk =>
        \A i \in 1..Len(last.batch) :
            (/\ last.batch[i].table = StorageTrieTable
             /\ last.batch[i].op = "put"
             /\ \A j \in 1..Len(last.batch) : last.batch[j].op = "put")
            => <<last.batch[i].key,
                 Decompress(StorageTrieTable, last.batch[i].val).val.nibbles>>
                   \in DupEntries(engine[StorageTrieTable])

-----------------------------------------------------------------------------
(* Cursor traversal of a table that does not change. *)

\* keys a cursor is asked to seek: the stored ones and some that are not
SeekKeys(T) == IF T = AccountTrieTable THEN NibbleKeys \cup {<<1, 1>>, <<3>>}
               ELSE HashKeys \cup {B256(0), B256(3)}

\* every content of a column family over the keys and values of a table
Contents(T) ==
    UNION {[{EncodeKey(T, k) : k \in S} -> {Compress(T, v) : v \in ValuesOf(T)}]
             : S \in SUBSET KeysOf(T)}

\* the record of a cursor operation
CRec(op, kb, sb, ret) ==
    [op |-> op, tx |-> cur.tx, table |-> cur.table, key |-> kb, sub |-> sb, ret |-> ret,
     pre |-> engine, batch |-> <<>>]

\* the entries yielded so far by first followed by next, or last followed by prev
Start(mode, ret) ==
    IF ret.ok /\ IsSome(ret.val)
    THEN [mode |-> mode, seq |-> ret.val, done |-> FALSE]
    ELSE [mode |-> mode, seq |-> <<>>, done |-> TRUE]
Continue(mode, ret) ==
    IF trace.mode # mode \/ trace.done THEN NoTrace
    ELSE IF ret.ok /\ IsSome(ret.val)
         THEN [trace EXCEPT !.seq = @ \o ret.val]
         ELSE [trace EXCEPT !.done = TRUE]

\* the position the contract gives the cursor after an operation: the entry
\* the operation returned; unpositioned when first, last, seek, next or prev
\* returned None; as before after current and after a seek_exact that missed
PositioningOps == {"first", "last", "seek", "seek_exact", "next", "prev"}

ContractPos(op, ret) ==
    IF op \notin PositioningOps \/ ~ret.ok THEN [pos |-> NoneV, known |-> "no"]
    ELSE IF IsSome(ret.val) THEN [pos |-> ret.val, known |-> "yes"]
    ELSE IF op = "seek_exact"
         THEN [pos |-> trace.pos, known |-> IF trace.known = "no" THEN "no" ELSE "miss"]
    ELSE [pos |-> NoneV, known |-> "yes"]

Apply(op, kb, sb, r, tr) ==
    /\ cur' = ThreadSafe(r).cur
    /\ last' = CRec(op, kb, sb, ThreadSafe(r).ret)
    /\ trace' = [mode |-> tr.mode, seq |-> tr.seq, done |-> tr.done,
                 pos |-> IF op = "current" THEN trace.pos
                         ELSE ContractPos(op, ThreadSafe(r).ret).pos,
                 known |-> IF op = "current" THEN trace.known
                           ELSE ContractPos(op, ThreadSafe(r).ret).known]
    /\ UNCHANGED <<engine, txs>>

CFirst ==
    /\ cur.open
    /\ LET r == IF cur.dup THEN dup_first(engine, cur) ELSE first(engine, cur)
       IN  Apply("first", <<>>, <<>>, r, Start("fwd", r.ret))

CLast ==
    /\ cur.open
    /\ LET r == IF cur.dup THEN dup_last(engine, cur) ELSE last_(engine, cur)
       IN  Apply("last", <<>>, <<>>, r, Start("bwd", r.ret))

\* a next on a cursor just obtained starts the enumeration "scan"; the record
\* of next and prev keeps, as sub, the operation before and what it returned
CNext ==
    /\ cur.open
    /\ LET r == IF cur.dup THEN dup_next(engine, cur) ELSE next(engine, cur)
       IN  Apply("next", <<>>, [op |-> last.op, ret |-> last.ret], r,
                 IF trace.mode = "new" THEN Start("scan", r.ret)
                 ELSE IF trace.mode = "scan" THEN Continue("scan", r.ret)
                 ELSE Continue("fwd", r.ret))

CPrev ==
    /\ cur.open
    /\ LET r == IF cur.dup THEN dup_prev(engine, cur) ELSE prev(engine, cur)
       IN  Apply("prev", <<>>, [op |-> last.op, ret |-> last.ret], r, Continue("bwd", r.ret))

CSeek(key) ==
    /\ cur.open
    /\ LET r == IF cur.dup THEN dup_seek(engine, cur, key) ELSE seek(engine, cur, key)
       IN  Apply("seek", EncodeKey(cur.table, key), <<>>, r, NoTrace)

\* the record keeps, as sub, the item the cursor held before the call
CSeekExact(key) ==
    /\ cur.open
    /\ LET r == IF cur.dup THEN dup_seek_exact(engine, cur, key)
                ELSE seek_exact(engine, cur, key)
       IN  Apply("seek_exact", EncodeKey(cur.table, key), cur.current_item, r, NoTrace)

CCurrent ==
    /\ cur.open
    /\ Apply("current", <<>>, <<>>, current(engine, cur), trace)

CSeekByKeySubkey(key, subkey) ==
    /\ cur.open /\ cur.dup
    /\ Apply("seek_by_key_subkey", EncodeKey(cur.table, key), subkey,
             seek_by_key_subkey(engine, cur, key, subkey), NoTrace)

\* a read transaction over some content, and a cursor just obtained from it
InitCursor ==
    /\ \E T \in Tables : \E cf \in Contents(T) :
          /\ engine = [U \in Tables |-> IF U = T THEN cf ELSE EmptyCf]
          /\ cur = IF DUPSORT(T) THEN NewDupCursor(engine, T, 1) ELSE NewCursor(engine, T, 1)
    /\ txs = [t \in TxIds |-> IF t = 1 THEN [state |-> "active", write |-> FALSE, batch |-> <<>>]
                              ELSE NoTx]
    /\ last = [op |-> "init", tx |-> 0, table |-> AccountTrieTable, key |-> <<>>,
               sub |-> <<>>, ret |-> Ok(NoneV), pre |-> [T \in Tables |-> EmptyCf],
               batch |-> <<>>]
    /\ trace = [NoTrace EXCEPT !.mode = "new"]

NextCursor ==
    \/ CFirst
    \/ CLast
    \/ CNext
    \/ CPrev
    \/ \E k \in SeekKeys(cur.table) : CSeek(k)
    \/ \E k \in SeekKeys(cur.table) : CSeekExact(k)
    \/ CCurrent
    \/ \E k \in SeekKeys(cur.table), s \in SubKeys : CSeekByKeySubkey(k, s)

SpecCursor == InitCursor /\ [][NextCursor]_vars

-----------------------------------------------------------------------------
(* Properties of the cursor. *)

\* the typed entries a column family holds
Stored(T, cf) ==
    {e \in KeysOf(T) \X ValuesOf(T) :
        /\ EncodeKey(T, e[1]) \in DOMAIN cf
        /\ cf[EncodeKey(T, e[1])] = Compress(T, e[2])}

KeyLess(T, a, b) == BytesLess(EncodeKey(T, a), EncodeKey(T, b))

Range(seq) == {seq[i] : i \in 1..Len(seq)}

\* C6: first followed by next yields every stored entry once, in ascending
\* key order, then None; last followed by prev does so in descending order.
C6_EnumeratesExactlyOnce ==
    LET S == Stored(cur.table, engine[cur.table])
        seq == trace.seq
    IN  /\ trace.mode = "fwd" =>
              /\ \A i \in 1..Len(seq) : seq[i] \in S
              /\ \A i \in 2..Len(seq) : KeyLess(cur.table, seq[i - 1][1], seq[i][1])
              /\ trace.done => Range(seq) = S
        /\ trace.mode = "bwd" =>
              /\ \A i \in 1..Len(seq) : seq[i] \in S
              /\ \A i \in 2..Len(seq) : KeyLess(cur.table, seq[i][1], seq[i - 1][1])
              /\ trace.done => Range(seq) = S

C6_Witness ==
    /\ trace.mode = "fwd" /\ trace.done
    /\ Len(trace.seq) = Cardinality(NibbleKeys)
    /\ last.op = "next"

\* C7: seek(k) returns the stored entry with the least key >= k and positions
\* the cursor on it, or returns None and leaves the cursor unpositioned.
C7_SeekLeastGreaterOrEqual ==
    last.op = "seek" =>
        LET T == cur.table
            cand == {e \in Stored(T, engine[T]) : BytesLeq(last.key, EncodeKey(T, e[1]))}
        IN  IF cand = {}
            THEN last.ret = Ok(NoneV) /\ cur.current_item = NoneV
            ELSE \E e \in cand :
                    /\ \A f \in cand : ~KeyLess(T, f[1], e[1])
                    /\ last.ret = Ok(Some(e))
                    /\ cur.current_item = Some(<<EncodeKey(T, e[1]), Compress(T, e[2])>>)

C7_Witness ==
    /\ last.op = "seek"
    /\ IsSome(last.ret.val)
    /\ EncodeKey(cur.table, Unwrap(last.ret.val)[1]) # last.key
    /\ \E kb \in DOMAIN engine[cur.table] : BytesLess(kb, last.key)

\* C8: seek_exact(k) returns Some(k, v) exactly when k is stored, v being the
\* value stored at k, and None for every key that is not stored.
C8_SeekExactIffStored ==
    last.op = "seek_exact" =>
        LET T == cur.table
            hit == {e \in Stored(T, engine[T]) : EncodeKey(T, e[1]) = last.key}
        IN  IF hit = {} THEN last.ret = Ok(NoneV)
            ELSE \E e \in hit : last.ret = Ok(Some(e))

C8_Witness ==
    /\ last.op = "seek_exact"
    /\ last.ret = Ok(NoneV)
    /\ \E kb \in DOMAIN engine[cur.table] : BytesLess(last.key, kb)

\* C10: seek_by_key_subkey(k, s) returns Some(v) exactly when an entry with
\* logical key k and sub-key s is stored, v carrying the sub-key s, and on a
\* hit the current logical key becomes k.
C10_SeekByKeySubkeyExact ==
    last.op = "seek_by_key_subkey" =>
        /\ last.ret.ok
        /\ IsSome(last.ret.val) <=> <<last.key, last.sub>> \in DupEntries(engine[cur.table])
        /\ IsSome(last.ret.val) =>
              /\ Unwrap(last.ret.val).nibbles = last.sub
              /\ IsSome(cur.current_key)
              /\ EncodeKey(cur.table, Unwrap(cur.current_key)) = last.key

-----------------------------------------------------------------------------
(* Writes through the cursor of a write transaction. *)

WriteKeys(T) == IF T = AccountTrieTable THEN {<<1>>, <<2>>} ELSE {B256(1)}

CursorWriteOps == {"upsert", "insert", "append", "append_dup", "delete_current",
                   "delete_current_duplicates"}

(* cursor_write / cursor_dup_write *)
OpenWrite(t, T) ==
    /\ Active(t) /\ txs[t].write
    /\ ~cur.open
    /\ cur' = IF DUPSORT(T) THEN NewDupCursor(engine, T, t) ELSE NewCursor(engine, T, t)
    /\ last' = Rec("cursor_write", t, T, <<>>, Ok(NoneV), <<>>)
    /\ UNCHANGED <<engine, txs, trace>>

Write(op, kb, w) ==
    /\ engine' = ThreadSafe(w).db
    /\ cur' = ThreadSafe(w).cur
    /\ last' = CRec(op, kb, <<>>, ThreadSafe(w).ret)
    /\ UNCHANGED <<txs, trace>>

WUpsert(key, value) ==
    /\ cur.open
    /\ Write("upsert", EncodeKey(cur.table, key), upsert(engine, cur, key, value))

WInsert(key, value) ==
    /\ cur.open
    /\ Write("insert", EncodeKey(cur.table, key), insert(engine, cur, key, value))

WAppend(key, value) ==
    /\ cur.open
    /\ Write("append", EncodeKey(cur.table, key), append(engine, cur, key, value))

WAppendDup(key, value) ==
    /\ cur.open /\ cur.dup
    /\ Write("append_dup", EncodeKey(cur.table, key), append_dup(engine, cur, key, value))

\* the record keeps, as sub, the item the cursor held before the call
WDeleteCurrent ==
    /\ cur.open
    /\ engine' = ThreadSafe(delete_current(engine, cur)).db
    /\ cur' = ThreadSafe(delete_current(engine, cur)).cur
    /\ last' = CRec("delete_current", <<>>, cur.current_item,
                    ThreadSafe(delete_current(engine, cur)).ret)
    /\ UNCHANGED <<txs, trace>>

WDeleteCurrentDuplicates ==
    /\ cur.open /\ cur.dup
    /\ Write("delete_current_duplicates", <<>>, delete_current_duplicates(engine, cur))

NextWrite ==
    \/ \E t \in TxIds : Begin(t, TRUE)
    \/ \E t \in TxIds, T \in Tables : OpenWrite(t, T)
    \/ \E k \in WriteKeys(cur.table), v \in ValuesOf(cur.table) : WUpsert(k, v)
    \/ \E k \in WriteKeys(cur.table), v \in ValuesOf(cur.table) : WInsert(k, v)
    \/ \E k \in WriteKeys(cur.table), v \in ValuesOf(cur.table) : WAppend(k, v)
    \/ \E k \in WriteKeys(cur.table), v \in ValuesOf(cur.table) : WAppendDup(k, v)
    \/ WDeleteCurrent
    \/ WDeleteCurrentDuplicates
    \/ \E k \in WriteKeys(cur.table) : CSeekExact(k)
    \/ CNext
    \/ \E t \in TxIds, T \in Tables : \E k \in WriteKeys(T) : Get(t, T, k)
    \/ \E t \in TxIds : Commit(t)
    \/ \E t \in TxIds : Abort(t)

SpecWrite == Init /\ [][NextWrite]_vars

\* C3: a write through the cursor of a write transaction is staged in the
\* batch of the transaction: while the transaction is active the engine, and
\* so every other transaction, sees nothing of it.
C3_CursorWritesAreStaged ==
    (/\ last.op \in CursorWriteOps
     /\ txs[last.tx].state = "active")
    => engine = last.pre

-----------------------------------------------------------------------------
(* The dup-sort cursor of a write transaction over the storage trie table. *)

\* the entries appended so far, the entries yielded since the cursor was
\* positioned, and whether delete_current_duplicates has been called
DupTrace(mode, seq, done) ==
    [mode |-> mode, seq |-> seq, done |-> done,
     written |-> trace.written, deleted |-> trace.deleted]

\* the key bytes of an optional typed key
KeyBytes(T, o) == IF IsSome(o) THEN Some(EncodeKey(T, Unwrap(o))) ELSE NoneV

DApply(op, r, tr) ==
    /\ cur' = ThreadSafe(r).cur
    /\ last' = CRec(op, KeyBytes(cur.table, cur.current_key),
                    IF IsSome(cur.current_item) THEN Some(Unwrap(cur.current_item)[1]) ELSE NoneV,
                    ThreadSafe(r).ret)
    /\ trace' = tr

Positioned(ret) ==
    IF ret.ok /\ IsSome(ret.val)
    THEN DupTrace("dup", ret.val, FALSE)
    ELSE DupTrace("none", <<>>, FALSE)

DAppendDup(key, value) ==
    /\ LET w == append_dup(engine, cur, key, value)
       IN  /\ engine' = ThreadSafe(w).db
           /\ DApply("append_dup", w,
                     [DupTrace("none", <<>>, FALSE) EXCEPT !.written = @ \cup {<<key, value>>}])
    /\ UNCHANGED txs

DFirst ==
    /\ LET r == dup_first(engine, cur) IN DApply("first", r, Positioned(r.ret))
    /\ UNCHANGED <<engine, txs>>

DSeekExact(key) ==
    /\ LET r == dup_seek_exact(engine, cur, key) IN DApply("seek_exact", r, Positioned(r.ret))
    /\ UNCHANGED <<engine, txs>>

DSeekByKeySubkey(key, subkey) ==
    /\ LET r == seek_by_key_subkey(engine, cur, key, subkey)
       IN  DApply("seek_by_key_subkey", r,
                  IF r.ret.ok /\ IsSome(r.ret.val)
                  THEN DupTrace("dup", <<<<key, Unwrap(r.ret.val)>>>>, FALSE)
                  ELSE DupTrace("none", <<>>, FALSE))
    /\ UNCHANGED <<engine, txs>>

DNextDup ==
    /\ LET r == next_dup(engine, cur)
       IN  DApply("next_dup", r,
                  IF trace.mode # "dup" \/ trace.done THEN DupTrace("none", <<>>, FALSE)
                  ELSE IF r.ret.ok /\ IsSome(r.ret.val)
                       THEN DupTrace("dup", trace.seq \o r.ret.val, FALSE)
                       ELSE DupTrace("dup", trace.seq, TRUE))
    /\ UNCHANGED <<engine, txs>>

DNextNoDup ==
    /\ LET r == next_no_dup(engine, cur) IN DApply("next_no_dup", r, Positioned(r.ret))
    /\ UNCHANGED <<engine, txs>>

DDeleteCurrentDuplicates ==
    /\ LET w == delete_current_duplicates(engine, cur)
       IN  /\ engine' = ThreadSafe(w).db
           /\ DApply("delete_current_duplicates", w,
                     [DupTrace("none", <<>>, FALSE) EXCEPT !.deleted = TRUE])
    /\ UNCHANGED txs

\* tx_mut, then cursor_dup_write on the empty table
InitDup ==
    /\ engine = [T \in Tables |-> EmptyCf]
    /\ txs = [t \in TxIds |-> IF t = 1 THEN [state |-> "active", write |-> TRUE, batch |-> <<>>]
                              ELSE NoTx]
    /\ cur = NewDupCursor(engine, StorageTrieTable, 1)
    /\ last = [op |-> "init", tx |-> 0, table |-> StorageTrieTable, key |-> NoneV,
               sub |-> NoneV, ret |-> Ok(NoneV), pre |-> [T \in Tables |-> EmptyCf],
               batch |-> <<>>]
    /\ trace = [mode |-> "none", seq |-> <<>>, done |-> FALSE, written |-> {}, deleted |-> FALSE]

NextDup ==
    \/ \E k \in HashKeys, v \in TrieNodeValues : DAppendDup(k, v)
    \/ DFirst
    \/ \E k \in HashKeys : DSeekExact(k)
    \/ \E k \in HashKeys \cup {B256(0)}, s \in SubKeys : DSeekByKeySubkey(k, s)
    \/ DNextDup
    \/ DNextNoDup
    \/ DDeleteCurrentDuplicates

SpecDup == InitDup /\ [][NextDup]_vars

\* sub-keys in the order of their encoded bytes
SubKeyLess(a, b) == BytesLess(EncodeNibbles(a), EncodeNibbles(b))

\* C11: after positioning on (k, s0), repeated next_dup yields the remaining
\* entries written under k, each once and in ascending sub-key order, and
\* returns None without yielding an entry of another key.
C11_NextDupEnumeratesKey ==
    (trace.mode = "dup" /\ ~trace.deleted) =>
        LET seq == trace.seq
            k == seq[1][1]
            s0 == seq[1][2].nibbles
            remaining == {e \in trace.written :
                            e[1] = k /\ ~SubKeyLess(e[2].nibbles, s0)}
        IN  /\ \A i \in 1..Len(seq) : seq[i] \in remaining
            /\ \A i \in 2..Len(seq) : SubKeyLess(seq[i - 1][2].nibbles, seq[i][2].nibbles)
            /\ trace.done => Range(seq) = remaining

C13_DeleteCurrentDuplicatesFrame ==
    (last.op = "delete_current_duplicates" /\ IsSome(last.key)) =>
        \A T \in Tables :
            /\ DOMAIN engine[T] =
                  {kb \in DOMAIN last.pre[T] : ~(T = cur.table /\ kb = Unwrap(last.key))}
            /\ \A kb \in DOMAIN engine[T] : engine[T][kb] = last.pre[T][kb]

\* C14: insert(k, v) through a write cursor stores v at k when k is absent;
\* when k is stored it returns the KeyExists error and changes nothing.
C14_InsertKeyExists ==
    last.op = "insert" =>
        LET T == cur.table
        IN  IF last.key \in DOMAIN last.pre[T]
            THEN last.ret = Err("KeyExists") /\ engine = last.pre
            ELSE /\ last.ret.ok
                 /\ last.key \in DOMAIN engine[T]
                 /\ \A kb \in DOMAIN last.pre[T] :
                       kb \in DOMAIN engine[T] /\ engine[T][kb] = last.pre[T][kb]

\* a cursor standing where the contract puts it
AtContractPos ==
    [cur EXCEPT !.current_item =
        IF IsSome(trace.pos)
        THEN Some(<<EncodeKey(cur.table, Unwrap(trace.pos)[1]),
                    Compress(cur.table, Unwrap(trace.pos)[2])>>)
        ELSE NoneV]

\* C15: current returns the entry returned by the most recent positioning
\* operation that returned one, None when the cursor is unpositioned, and
\* leaves the position alone: a next or prev after it gives what it would
\* have given at that position.
C15_CurrentIsLastReturned ==
    /\ (last.op = "current" /\ trace.known = "yes") =>
          /\ last.ret = Ok(trace.pos)
          /\ next(engine, cur).ret = next(engine, AtContractPos).ret
          /\ prev(engine, cur).ret = prev(engine, AtContractPos).ret
    /\ (last.op = "current" /\ trace.known = "miss") =>
          last.ret \in {Ok(trace.pos), Ok(NoneV)}

\* C16: on a cursor just obtained, before any positioning call, repeated
\* next visits every stored entry: the first next returns the first entry
\* of the table and the number of entries yielded before None is the number
\* of entries stored.
C16_FreshCursorNextVisitsAll ==
    (trace.mode = "scan" /\ ~cur.dup) =>
        /\ Stored(cur.table, engine[cur.table]) # {} =>
              /\ Len(trace.seq) >= 1
              /\ \A e \in Stored(cur.table, engine[cur.table]) :
                    e = trace.seq[1] \/ KeyLess(cur.table, trace.seq[1][1], e[1])
        /\ trace.done =>
              /\ Len(trace.seq) = Cardinality(Stored(cur.table, engine[cur.table]))
              /\ Range(trace.seq) = Stored(cur.table, engine[cur.table])

-----------------------------------------------------------------------------
(* Trie cursors and the hashed-storage cursor.  They hold a transaction and  *)
(* a current key; the trie cursors open a new table cursor for every call,  *)
(* the hashed-storage cursor keeps two for its lifetime.                     *)

(* RocksTransaction::cursor_read: RocksCursor::new, whose error is returned. *)
cursor_read(db, T, t) ==
    reset_to_first(db, [open |-> TRUE, table |-> T, tx |-> t, dup |-> FALSE,
                        current_item |-> NoneV, current_key |-> NoneV])

(* RocksTransaction::cursor_dup_read *)
cursor_dup_read(db, T, t) ==
    LET r == cursor_read(db, T, t) IN [cur |-> [r.cur EXCEPT !.dup = TRUE], ret |-> r.ret]

(* Nibbles and B256 compare as their sequences of nibbles and bytes do. *)
PathLeq(a, b) == BytesLeq(a, b)

(* the result of a trie-cursor call: Ok leaves `key` as current key *)
Found(tc, key, node) == [cur |-> [tc EXCEPT !.current_key = Some(key)], ret |-> Ok(Some(<<key, node>>))]
NotFound(tc) == [cur |-> [tc EXCEPT !.current_key = NoneV], ret |-> Ok(NoneV)]
Failed(tc, ret) == [cur |-> tc, ret |-> ret]

(* RocksAccountTrieCursor::new *)
account_trie_cursor(t) ==
    [kind |-> "account", tx |-> t, hashed_address |-> <<>>, current_key |-> NoneV,
     cursor |-> NoCursor, dup_cursor |-> NoCursor]

(* The tail of RocksAccountTrieCursor::seek and ::next. *)
AccountResult(tc, ret) ==
    IF ~ret.ok THEN Failed(tc, ret)
    ELSE IF IsSome(ret.val) THEN Found(tc, Unwrap(ret.val)[1], Unwrap(ret.val)[2])
    ELSE NotFound(tc)

(* RocksAccountTrieCursor::seek_exact *)
account_seek_exact(db, tc, key) ==
    LET with_cursor(c) ==
            IF ~c.ret.ok THEN Failed(tc, c.ret)
            ELSE AccountResult(tc, ThreadSafe(seek_exact(db, c.cur, key)).ret)
    IN  with_cursor(ThreadSafe(cursor_read(db, AccountTrieTable, tc.tx)))

(* RocksAccountTrieCursor::seek *)
account_seek(db, tc, key) ==
    LET with_cursor(c) ==
            IF ~c.ret.ok THEN Failed(tc, c.ret)
            ELSE AccountResult(tc, ThreadSafe(seek(db, c.cur, key)).ret)
    IN  with_cursor(ThreadSafe(cursor_read(db, AccountTrieTable, tc.tx)))

(* RocksAccountTrieCursor::next *)
account_next_stay(db, tc) ==
    LET positioned(m) ==
            IF ~m.ret.ok THEN Failed(tc, m.ret)
            ELSE AccountResult(tc, ThreadSafe(current(db, m.cur)).ret)
        after_seek(sk) ==
            IF ~sk.ret.ok THEN Failed(tc, sk.ret)
            ELSE IF IsSome(sk.ret.val) THEN positioned(sk)
            ELSE positioned(ThreadSafe(first(db, sk.cur)))
        with_cursor(c) ==
            IF ~c.ret.ok THEN Failed(tc, c.ret)
            ELSE IF IsSome(tc.current_key)
                 THEN after_seek(ThreadSafe(seek(db, c.cur, Unwrap(tc.current_key))))
                 ELSE positioned(ThreadSafe(first(db, c.cur)))
    IN  with_cursor(ThreadSafe(cursor_read(db, AccountTrieTable, tc.tx)))

account_next(db, tc) ==
    LET positioned(m) ==
            IF ~m.ret.ok THEN Failed(tc, m.ret)
            ELSE AccountResult(tc, ThreadSafe(current(db, m.cur)).ret)
        after_seek(sk) ==
            IF ~sk.ret.ok THEN Failed(tc, sk.ret)
            ELSE IF IsSome(sk.ret.val) THEN positioned(ThreadSafe(next(db, sk.cur)))
            ELSE positioned(ThreadSafe(first(db, sk.cur)))
        with_cursor(c) ==
            IF ~c.ret.ok THEN Failed(tc, c.ret)
            ELSE IF IsSome(tc.current_key)
                 THEN after_seek(ThreadSafe(seek(db, c.cur, Unwrap(tc.current_key))))
                 ELSE positioned(ThreadSafe(first(db, c.cur)))
    IN  with_cursor(ThreadSafe(cursor_read(db, AccountTrieTable, tc.tx)))

(* RocksStorageTrieCursor::new *)
storage_trie_cursor(t, hashed_address) ==
    [kind |-> "storage", tx |-> t, hashed_address |-> hashed_address, current_key |-> NoneV,
     cursor |-> NoCursor, dup_cursor |-> NoCursor]

(* RocksStorageTrieCursor::value_to_branch_node *)
value_to_branch_node(value) ==
    [state_mask |-> 0, tree_mask |-> 0, hash_mask |-> 0, hashes |-> <<>>,
     root_hash |-> Some(value.node)]

(* the node of a storage-trie entry becomes the result *)
FoundValue(tc, value) == Found(tc, value.nibbles, value_to_branch_node(value))

(* The scan of RocksStorageTrieCursor::seek_exact over the entries that follow. *)
RECURSIVE storage_seek_exact_scan(_, _, _, _)
storage_seek_exact_scan(db, tc, c, key) ==
    LET step(n) ==
            IF ~n.ret.ok THEN Failed(tc, n.ret)
            ELSE IF ~IsSome(n.ret.val) THEN NotFound(tc)
            ELSE IF Unwrap(n.ret.val)[1] # tc.hashed_address THEN NotFound(tc)
            ELSE IF Unwrap(n.ret.val)[2].nibbles = key
                 THEN Found(tc, key, value_to_branch_node(Unwrap(n.ret.val)[2]))
            ELSE storage_seek_exact_scan(db, tc, n.cur, key)
    IN  step(ThreadSafe(next(db, c)))

(* RocksStorageTrieCursor::seek_exact *)
storage_seek_exact(db, tc, key) ==
    LET first_entry(r) ==
            IF ~r.ret.ok THEN Failed(tc, r.ret)
            ELSE IF IsSome(r.ret.val) /\ Unwrap(r.ret.val)[1] = tc.hashed_address
                 THEN IF Unwrap(r.ret.val)[2].nibbles = key
                      THEN Found(tc, key, value_to_branch_node(Unwrap(r.ret.val)[2]))
                      ELSE storage_seek_exact_scan(db, tc, r.cur, key)
                 ELSE NotFound(tc)
        with_cursor(c) ==
            IF ~c.ret.ok THEN Failed(tc, c.ret)
            ELSE first_entry(ThreadSafe(seek_exact(db, c.cur, tc.hashed_address)))
    IN  with_cursor(ThreadSafe(cursor_read(db, StorageTrieTable, tc.tx)))

(* The scan of RocksStorageTrieCursor::seek over the entries that follow. *)
RECURSIVE storage_seek_scan(_, _, _, _)
storage_seek_scan(db, tc, c, key) ==
    LET step(n) ==
            IF ~n.ret.ok THEN Failed(tc, n.ret)
            ELSE IF ~IsSome(n.ret.val) THEN NotFound(tc)
            ELSE IF Unwrap(n.ret.val)[1] # tc.hashed_address THEN NotFound(tc)
            ELSE IF PathLeq(key, Unwrap(n.ret.val)[2].nibbles)
                 THEN FoundValue(tc, Unwrap(n.ret.val)[2])
            ELSE storage_seek_scan(db, tc, n.cur, key)
    IN  step(ThreadSafe(next(db, c)))

(* RocksStorageTrieCursor::seek *)
storage_seek_any_account(db, tc, key) ==
    LET first_entry(r) ==
            IF ~r.ret.ok THEN Failed(tc, r.ret)
            ELSE IF IsSome(r.ret.val)
                 THEN IF PathLeq(key, Unwrap(r.ret.val)[2].nibbles)
                      THEN FoundValue(tc, Unwrap(r.ret.val)[2])
                      ELSE storage_seek_scan(db, tc, r.cur, key)
                 ELSE NotFound(tc)
        with_cursor(c) ==
            IF ~c.ret.ok THEN Failed(tc, c.ret)
            ELSE first_entry(ThreadSafe(seek(db, c.cur, tc.hashed_address)))
    IN  with_cursor(ThreadSafe(cursor_read(db, StorageTrieTable, tc.tx)))

storage_seek(db, tc, key) ==
    LET first_entry(r) ==
            IF ~r.ret.ok THEN Failed(tc, r.ret)
            ELSE IF IsSome(r.ret.val) /\ Unwrap(r.ret.val)[1] = tc.hashed_address
                 THEN IF PathLeq(key, Unwrap(r.ret.val)[2].nibbles)
                      THEN FoundValue(tc, Unwrap(r.ret.val)[2])
                      ELSE storage_seek_scan(db, tc, r.cur, key)
                 ELSE NotFound(tc)
        with_cursor(c) ==
            IF ~c.ret.ok THEN Failed(tc, c.ret)
            ELSE first_entry(ThreadSafe(seek_exact(db, c.cur, tc.hashed_address)))
    IN  with_cursor(ThreadSafe(cursor_read(db, StorageTrieTable, tc.tx)))

(* The entry after the one the table cursor stands on, if it is the account's. *)
storage_next_entry(db, tc, c) ==
    LET step(n) ==
            IF ~n.ret.ok THEN Failed(tc, n.ret)
            ELSE IF IsSome(n.ret.val) /\ Unwrap(n.ret.val)[1] = tc.hashed_address
                 THEN FoundValue(tc, Unwrap(n.ret.val)[2])
            ELSE NotFound(tc)
    IN  step(ThreadSafe(next(db, c)))

(* The scan of RocksStorageTrieCursor::next for the current key. *)
RECURSIVE storage_next_scan(_, _, _)
storage_next_scan(db, tc, c) ==
    LET step(n) ==
            IF ~n.ret.ok THEN Failed(tc, n.ret)
            ELSE IF ~IsSome(n.ret.val) THEN NotFound(tc)
            ELSE IF Unwrap(n.ret.val)[1] # tc.hashed_address THEN NotFound(tc)
            ELSE IF Unwrap(n.ret.val)[2].nibbles = Unwrap(tc.current_key)
                 THEN storage_next_entry(db, tc, n.cur)
            ELSE storage_next_scan(db, tc, n.cur)
    IN  step(ThreadSafe(next(db, c)))

(* RocksStorageTrieCursor::next *)
storage_next(db, tc) ==
    LET first_entry(r) ==
            IF ~r.ret.ok THEN Failed(tc, r.ret)
            ELSE IF IsSome(r.ret.val) /\ Unwrap(r.ret.val)[1] = tc.hashed_address
                 THEN IF IsSome(tc.current_key)
                      THEN IF Unwrap(r.ret.val)[2].nibbles = Unwrap(tc.current_key)
                           THEN storage_next_entry(db, tc, r.cur)
                           ELSE storage_next_scan(db, tc, r.cur)
                      ELSE FoundValue(tc, Unwrap(r.ret.val)[2])
                 ELSE NotFound(tc)
        with_cursor(c) ==
            IF ~c.ret.ok THEN Failed(tc, c.ret)
            ELSE first_entry(ThreadSafe(seek_exact(db, c.cur, tc.hashed_address)))
    IN  with_cursor(ThreadSafe(cursor_read(db, StorageTrieTable, tc.tx)))

(* RocksHashedCursorFactory::hashed_storage_cursor *)
hashed_storage_cursor(db, t, hashed_address) ==
    [kind |-> "hashed", tx |-> t, hashed_address |-> hashed_address, current_key |-> NoneV,
     cursor |-> ThreadSafe(cursor_read(db, HashedStorages, t)).cur,
     dup_cursor |-> ThreadSafe(cursor_dup_read(db, HashedStorages, t)).cur]

(* RocksHashedStorageCursor::seek: the slot returned is the slot sought. *)
hashed_seek(db, tc, key) ==
    LET after_dup(tc1, d) ==
            IF ~d.ret.ok THEN Failed([tc1 EXCEPT !.dup_cursor = d.cur], d.ret)
            ELSE [cur |-> [tc1 EXCEPT !.dup_cursor = d.cur],
                  ret |-> IF IsSome(d.ret.val)
                          THEN Ok(Some(<<key, Unwrap(d.ret.val).value>>))
                          ELSE Ok(NoneV)]
        after_address(tc1, r) ==
            IF ~r.ret.ok THEN Failed(tc1, r.ret)
            ELSE IF IsSome(r.ret.val) /\ Unwrap(r.ret.val)[1] = tc.hashed_address
                 THEN after_dup(tc1, ThreadSafe(seek_by_key_subkey(db, tc.dup_cursor,
                                                                   tc.hashed_address, key)))
                 ELSE [cur |-> tc1, ret |-> Ok(NoneV)]
        moved(r) == after_address([tc EXCEPT !.cursor = r.cur], r)
    IN  moved(ThreadSafe(seek_exact(db, tc.cursor, tc.hashed_address)))

(* RocksHashedStorageCursor::next *)
hashed_next(db, tc) ==
    LET after_dup(tc1, d) ==
            IF ~d.ret.ok THEN Failed([tc1 EXCEPT !.dup_cursor = d.cur], d.ret)
            ELSE [cur |-> [tc1 EXCEPT !.dup_cursor = d.cur],
                  ret |-> IF IsSome(d.ret.val)
                          THEN Ok(Some(<<Unwrap(d.ret.val)[2].key, Unwrap(d.ret.val)[2].value>>))
                          ELSE Ok(NoneV)]
        after_address(tc1, r) ==
            IF ~r.ret.ok THEN Failed(tc1, r.ret)
            ELSE IF IsSome(r.ret.val) /\ Unwrap(r.ret.val)[1] = tc.hashed_address
                 THEN after_dup(tc1, ThreadSafe(next_dup(db, tc.dup_cursor)))
                 ELSE [cur |-> tc1, ret |-> Ok(NoneV)]
        moved(r) == after_address([tc EXCEPT !.cursor = r.cur], r)
    IN  moved(ThreadSafe(seek_exact(db, tc.cursor, tc.hashed_address)))

-----------------------------------------------------------------------------
(* Trie and hashed-storage cursors over tables that do not change. *)

TrieTables == Tables \cup {HashedStorages}

TableOf(kind) == IF kind = "account" THEN AccountTrieTable
                 ELSE IF kind = "storage" THEN StorageTrieTable
                 ELSE HashedStorages

\* the keys a trie or hashed cursor is asked to seek
TrieSeekKeys(kind) == IF kind = "account" THEN SeekKeys(AccountTrieTable)
                      ELSE IF kind = "storage" THEN SubKeys \cup {<<>>, <<5, 1>>, <<7>>}
                      ELSE SlotKeys \cup {B256(0), B256(5)}

\* the entries yielded since the last seek, and the key sought
TrieTrace(mode, target, seq, done) ==
    [mode |-> mode, target |-> target, seq |-> seq, done |-> done]

TApply(op, key, r, tr) ==
    /\ cur' = r.cur
    /\ last' = [op |-> op, tx |-> cur.tx, table |-> TableOf(cur.kind), key |-> key,
                sub |-> cur.current_key, ret |-> r.ret, pre |-> engine, batch |-> <<>>]
    /\ trace' = tr
    /\ UNCHANGED <<engine, txs>>

TSeek(key) ==
    LET done(r) ==
            TApply("seek", key, r,
                   IF r.ret.ok /\ IsSome(r.ret.val)
                   THEN TrieTrace("seek", key, r.ret.val, FALSE)
                   ELSE TrieTrace("seek", key, <<>>, TRUE))
    IN  done(IF cur.kind = "account" THEN account_seek(engine, cur, key)
             ELSE IF cur.kind = "storage" THEN storage_seek(engine, cur, key)
             ELSE hashed_seek(engine, cur, key))

TNext ==
    LET done(r) ==
            TApply("next", <<>>, r,
                   IF trace.mode # "seek" \/ trace.done THEN TrieTrace("none", <<>>, <<>>, FALSE)
                   ELSE IF r.ret.ok /\ IsSome(r.ret.val)
                        THEN [trace EXCEPT !.seq = @ \o r.ret.val]
                        ELSE [trace EXCEPT !.done = TRUE])
    IN  done(IF cur.kind = "account" THEN account_next(engine, cur)
             ELSE IF cur.kind = "storage" THEN storage_next(engine, cur)
             ELSE hashed_next(engine, cur))

\* a read transaction over some content and a cursor of one of the three kinds
InitTrie ==
    /\ \E kind \in {"account", "storage", "hashed"} :
         \E cf \in Contents(TableOf(kind)), A \in HashKeys :
          /\ engine = [U \in TrieTables |-> IF U = TableOf(kind) THEN cf ELSE EmptyCf]
          /\ cur = IF kind = "account" THEN account_trie_cursor(1)
                   ELSE IF kind = "storage" THEN storage_trie_cursor(1, A)
                   ELSE hashed_storage_cursor(engine, 1, A)
    /\ txs = [t \in TxIds |-> IF t = 1 THEN [state |-> "active", write |-> FALSE, batch |-> <<>>]
                              ELSE NoTx]
    /\ last = [op |-> "init", tx |-> 0, table |-> AccountTrieTable, key |-> <<>>,
               sub |-> NoneV, ret |-> Ok(NoneV), pre |-> engine, batch |-> <<>>]
    /\ trace = TrieTrace("none", <<>>, <<>>, FALSE)

NextTrie ==
    \/ \E k \in TrieSeekKeys(cur.kind) : TSeek(k)
    \/ TNext

SpecTrie == InitTrie /\ [][NextTrie]_vars

\* the (path, node) or (slot, value) pairs the cursor's scope holds
TrieStored ==
    IF cur.kind = "account" THEN Stored(AccountTrieTable, engine[AccountTrieTable])
    ELSE IF cur.kind = "storage"
    THEN {<<e[2].nibbles, value_to_branch_node(e[2])>> :
            e \in {x \in Stored(StorageTrieTable, engine[StorageTrieTable]) :
                     x[1] = cur.hashed_address}}
    ELSE {<<e[2].key, e[2].value>> :
            e \in {x \in Stored(HashedStorages, engine[HashedStorages]) :
                     x[1] = cur.hashed_address}}

\* the entry of S with the least path, as an Option
LeastOf(S) ==
    IF S = {} THEN NoneV ELSE Some(CHOOSE e \in S : \A f \in S : PathLeq(e[1], f[1]))

\* the entries of S in ascending order of path
RECURSIVE AscendingEntries(_)
AscendingEntries(S) ==
    IF S = {} THEN <<>> ELSE LeastOf(S) \o AscendingEntries(S \ {Unwrap(LeastOf(S))})

IsPrefix(a, b) == Len(a) <= Len(b) /\ SubSeq(b, 1, Len(a)) = a

\* the entries a seek of `key` followed by next has to yield
FromTarget(key) == AscendingEntries({e \in TrieStored : PathLeq(key, e[1])})

\* C17: after the account-trie cursor has returned the node at path p, next
\* returns the node with the least path above p, or None; seek followed by
\* repeated next yields every stored node at or after the target once, in
\* ascending order, until None.
C17_AccountTrieNextAdvances ==
    cur.kind = "account" =>
        /\ (last.op = "next" /\ IsSome(last.sub)) =>
              last.ret = Ok(LeastOf({e \in TrieStored :
                                       e[1] # Unwrap(last.sub) /\ PathLeq(Unwrap(last.sub), e[1])}))
        /\ trace.mode = "seek" =>
              /\ IsPrefix(trace.seq, FromTarget(trace.target))
              /\ trace.done => trace.seq = FromTarget(trace.target)

C17_Witness ==
    /\ cur.kind = "account"
    /\ trace.mode = "seek" /\ trace.done /\ Len(trace.seq) = 3
    /\ Cardinality(TrieStored) = 4
    /\ last.op = "next" /\ IsSome(last.sub)

C19_HashedStorageSeekNext ==
    cur.kind = "hashed" =>
        /\ last.op = "seek" =>
              last.ret = Ok(LeastOf({e \in TrieStored : PathLeq(last.key, e[1])}))
        /\ trace.mode = "seek" =>
              /\ IsPrefix(trace.seq, FromTarget(trace.target))
              /\ trace.done => trace.seq = FromTarget(trace.target)

-----------------------------------------------------------------------------
(* The state-root calculator over a read transaction and a post-state diff. *)
(* The trie walk and its hashing belong to the trie library; here a hash is *)
(* a number, and the root of a sequence of account leaves is a code that    *)
(* differs for every two sequences, as a collision-free hash does.          *)

(* RocksHashedCursorFactory::hashed_account_cursor *)
hashed_account_cursor(db, t) ==
    LET c == ThreadSafe(cursor_read(db, HashedAccounts, t))
    IN  [cur |-> [kind |-> "hashed_account", tx |-> t, cursor |-> c.cur], ret |-> c.ret]

(* RocksHashedAccountCursor::seek *)
hashed_account_seek(db, hc, key) ==
    LET r == ThreadSafe(seek(db, hc.cursor, key))
    IN  [cur |-> [hc EXCEPT !.cursor = r.cur], ret |-> r.ret]

(* RocksHashedAccountCursor::next: current (for the log), then next *)
hashed_account_next(db, hc) ==
    LET c == ThreadSafe(current(db, hc.cursor))
    IN  IF ~c.ret.ok THEN [cur |-> hc, ret |-> c.ret]
        ELSE LET r == ThreadSafe(next(db, hc.cursor))
             IN  [cur |-> [hc EXCEPT !.cursor = r.cur], ret |-> r.ret]

(* The accounts of the table as the walk reads them: seek of the zero hash, *)
(* then next until None.                                                    *)
RECURSIVE WalkAccounts(_, _, _, _)
WalkAccounts(db, hc, r, seen) ==
    IF ~r.ret.ok THEN [cur |-> r.cur, ret |-> r.ret]
    ELSE IF IsSome(r.ret.val)
         THEN WalkAccounts(db, r.cur, hashed_account_next(db, r.cur), seen \o r.ret.val)
         ELSE [cur |-> r.cur, ret |-> Ok(seen)]

(* HashedPostState: the accounts map the insertions build; a later *)
(* insertion of a key replaces the earlier one.                     *)
RECURSIVE InsertAll(_, _)
InsertAll(map, ins) ==
    IF ins = <<>> THEN map
    ELSE InsertAll([k \in DOMAIN map \cup {ins[1][1]} |->
                       IF k = ins[1][1] THEN ins[1][2] ELSE map[k]], Tail(ins))

(* the entries of the map in the order its iteration gives them *)
MapEntries(map, order) == [i \in 1..Len(order) |-> <<order[i], map[order[i]]>>]

(* HashedPostState::into_sorted: the entries sorted by hashed address *)
into_sorted_as_iterated(entries) == entries

into_sorted(entries) ==
    LET S == {entries[i] : i \in 1..Len(entries)}
        RECURSIVE Sort(_)
        Sort(R) == IF R = {} THEN <<>>
                   ELSE LET m == CHOOSE e \in R : \A f \in R : BytesLeq(e[1], f[1])
                        IN  <<m>> \o Sort(R \ {m})
    IN  Sort(S)

(* HashedPostStateCursorFactory over the hashed cursor factory: the two     *)
(* ascending sequences merged; an entry of the diff replaces the table's    *)
(* entry of the same address, and a destroyed account (None) yields no leaf. *)
RECURSIVE MergeLeaves(_, _)
MergeLeaves(dbseq, diff) ==
    IF diff = <<>> THEN dbseq
    ELSE IF dbseq = <<>> \/ BytesLess(diff[1][1], dbseq[1][1])
         THEN (IF IsSome(diff[1][2]) THEN <<<<diff[1][1], Unwrap(diff[1][2])>>>> ELSE <<>>)
              \o MergeLeaves(dbseq, Tail(diff))
    ELSE IF diff[1][1] = dbseq[1][1]
         THEN (IF IsSome(diff[1][2]) THEN <<<<diff[1][1], Unwrap(diff[1][2])>>>> ELSE <<>>)
              \o MergeLeaves(Tail(dbseq), Tail(diff))
    ELSE <<dbseq[1]>> \o MergeLeaves(Tail(dbseq), diff)

(* BranchNodeCompact::default(): no child and no root hash; every other *)
(* node of the model carries the root hash that names it.               *)
minimal_branch == 0
root_hash(node) == IF node = minimal_branch THEN NoneV ELSE Some(node)

(* HashBuilder::root over the leaves added in order: the root of no leaf is *)
(* the empty root; a leaf adds the digit of its address and account.        *)
RECURSIVE hash_builder_root(_)
hash_builder_root(leaves) ==
    IF leaves = <<>> THEN 16
    ELSE 7 * hash_builder_root(SubSeq(leaves, 1, Len(leaves) - 1))
         + 2 * leaves[Len(leaves)][1][1] + leaves[Len(leaves)][2]

EMPTY_ROOT_HASH == hash_builder_root(<<>>)

(* StateRoot::root, the walk of the trie library.  The prefix sets of the   *)
(* diff prune the subtrees the diff leaves alone: with an empty diff the    *)
(* root path is left alone, and an on-disk root node that carries its hash  *)
(* (read through the account-trie cursor) stands for the whole trie.        *)
(* Otherwise the root is that of the merged leaves.                         *)
state_root(db, t, post_state, leaves) ==
    LET at_root(r) ==
            IF ~r.ret.ok THEN r.ret
            ELSE IF /\ DOMAIN post_state = {}
                    /\ IsSome(r.ret.val)
                    /\ IsSome(root_hash(Unwrap(r.ret.val)[2]))
                 THEN Ok(Unwrap(root_hash(Unwrap(r.ret.val)[2])))
            ELSE Ok(hash_builder_root(leaves))
    IN  at_root(account_seek_exact(db, account_trie_cursor(t), <<>>))

(* calculate_state_root: new cursors from the factories, the diff sorted, *)
(* the root the walk gives.                                                *)
calculate_state_root(db, t, post_state, order) ==
    LET walked(w) ==
            IF ~w.ret.ok THEN w
            ELSE [cur |-> w.cur,
                  ret |-> state_root(db, t, post_state,
                                     MergeLeaves(w.ret.val,
                                                 into_sorted(MapEntries(post_state, order))))]
        with_cursor(hc) ==
            IF ~hc.ret.ok THEN [cur |-> hc.cur, ret |-> hc.ret]
            ELSE walked(WalkAccounts(db, hc.cur, hashed_account_seek(db, hc.cur, B256(0)), <<>>))
    IN  with_cursor(hashed_account_cursor(db, t))

\* hashed addresses and accounts of a diff; None destroys the account
DiffKeys == {B256(0), B256(2)}
DiffEntries == DiffKeys \X {NoneV, Some(2)}

RECURSIVE SeqsUpTo(_, _)
SeqsUpTo(S, n) ==
    IF n = 0 THEN {<<>>}
    ELSE SeqsUpTo(S, n - 1) \cup {Append(q, x) : q \in {r \in SeqsUpTo(S, n - 1) : Len(r) = n - 1}, x \in S}

\* the orders in which a map over the keys K can be iterated
Orders(K) == {q \in SeqsUpTo(K, Cardinality(K)) :
                 Len(q) = Cardinality(K) /\ {q[i] : i \in 1..Len(q)} = K}

\* one call: the diff is built by the insertions ins, its map iterates in order
CalculateStateRoot(ins, order) ==
    LET post_state == InsertAll(EmptyCf, ins)
        r == calculate_state_root(engine, 1, post_state, order)
    IN  /\ cur' = r.cur
        /\ last' = [op |-> "calculate_state_root", tx |-> 1, table |-> HashedAccounts,
                    key |-> ins, sub |-> order, ret |-> r.ret, pre |-> engine,
                    batch |-> <<>>]
        /\ trace' = [calls |-> IF trace.calls < 2 THEN trace.calls + 1 ELSE 2,
                     post_state |-> post_state]
        /\ UNCHANGED <<engine, txs>>

InitRoot ==
    /\ \E cf \in Contents(HashedAccounts) :
          engine = [U \in TrieTables \cup {HashedAccounts} |->
                       IF U = HashedAccounts THEN cf ELSE EmptyCf]
    /\ cur = NoCursor
    /\ txs = [t \in TxIds |-> IF t = 1 THEN [state |-> "active", write |-> FALSE, batch |-> <<>>]
                              ELSE NoTx]
    /\ last = [op |-> "init", tx |-> 0, table |-> HashedAccounts, key |-> <<>>,
               sub |-> <<>>, ret |-> Ok(NoneV), pre |-> engine, batch |-> <<>>]
    /\ trace = [calls |-> 0, post_state |-> EmptyCf]

NextRoot ==
    \E ins \in SeqsUpTo(DiffEntries, MaxDiff) :
        \E order \in Orders(DOMAIN InsertAll(EmptyCf, ins)) : CalculateStateRoot(ins, order)

SpecRoot == InitRoot /\ [][NextRoot]_vars

\* the leaves of the state after the diff: the table's accounts, replaced or
\* removed by the diff's entries, and the diff's new accounts
LeavesOf(db, post_state) ==
    {e \in Stored(HashedAccounts, db[HashedAccounts]) : e[1] \notin DOMAIN post_state}
    \cup {<<k, Unwrap(post_state[k])>> : k \in {x \in DOMAIN post_state : IsSome(post_state[x])}}

\* C20: the root calculate_state_root returns is determined by the contents
\* of the tables and by the diff as a map: it is the same whatever calls
\* came before, in whatever order the diff's entries were inserted and in
\* whatever order the map iterates them.
C20_StateRootDeterministic ==
    last.op = "calculate_state_root" =>
        last.ret = Ok(hash_builder_root(AscendingEntries(LeavesOf(engine, trace.post_state))))

C20_Witness ==
    /\ last.op = "calculate_state_root"
    /\ trace.calls = 2
    /\ Len(last.key) = 2 /\ last.key[1][1] # last.key[2][1]
    /\ BytesLess(last.key[2][1], last.key[1][1])
    /\ last.sub = <<last.key[1][1], last.key[2][1]>>
    /\ Cardinality(DOMAIN engine[HashedAccounts]) = 2
    /\ Cardinality(LeavesOf(engine, trace.post_state)) = 3
    /\ last.ret.ok

-----------------------------------------------------------------------------
(* calculate_state_root_with_updates: the root, and the branch nodes the    *)
(* walk emitted staged through the write transaction.                       *)

(* encode_branch_node_to_rlp: the state, tree and hash masks (two bytes     *)
(* each, zero in the nodes of the model), the number of hashes, then the    *)
(* flag of the root hash and the hash.                                      *)
encode_branch_node_to_rlp(node) ==
    <<0, 0, 0, 0, 0, 0, 0>>
    \o (IF IsSome(root_hash(node)) THEN <<1>> \o B256(Unwrap(root_hash(node))) ELSE <<0>>)

(* keccak256 of an encoded node: the encodings differ in their last byte, *)
(* and so do their hashes.                                                *)
keccak256(bytes) == B256(100 + bytes[Len(bytes)])

(* RocksTransaction::entries: the number of entries an iterator over the *)
(* engine's column family yields.                                         *)
entries(db, T) == Ok(Len(IterStart(db[T])))

(* commit_trie_updates, first loop: every account node under its path, and *)
(* its encoding under the hash of the encoding.                             *)
RECURSIVE StageAccountNodes(_, _)
StageAccountNodes(batch, account_nodes) ==
    IF account_nodes = <<>> THEN batch
    ELSE StageAccountNodes(
             StagePut(StagePut(batch, AccountTrieTable,
                               account_nodes[1][1], account_nodes[1][2]),
                      TrieTable,
                      keccak256(encode_branch_node_to_rlp(account_nodes[1][2])),
                      encode_branch_node_to_rlp(account_nodes[1][2])),
             Tail(account_nodes))

(* commit_trie_updates, second loop: every storage node put under its *)
(* hashed address, the sub-path inside the value.                      *)
RECURSIVE StageStorageNodes(_, _)
StageStorageNodes(batch, storage_nodes) ==
    IF storage_nodes = <<>> THEN batch
    ELSE StageStorageNodes(
             StagePut(batch, StorageTrieTable, storage_nodes[1][1],
                      [nibbles |-> storage_nodes[1][2],
                       node |-> keccak256(encode_branch_node_to_rlp(storage_nodes[1][3]))]),
             Tail(storage_nodes))

commit_trie_updates(batch, account_nodes, storage_nodes) ==
    StageStorageNodes(StageAccountNodes(batch, account_nodes), storage_nodes)

(* the minimal root node: the default node at the empty path, and its *)
(* encoding under the hash of the encoding                              *)
StageMinimalRoot(batch) ==
    StagePut(StagePut(batch, AccountTrieTable, <<>>, minimal_branch),
             TrieTable,
             keccak256(encode_branch_node_to_rlp(minimal_branch)),
             encode_branch_node_to_rlp(minimal_branch))

(* calculate_state_root_with_updates: the root as calculate_state_root      *)
(* computes it over the read transaction, the emitted nodes staged, and the *)
(* minimal root node staged when the engine's account-trie table is empty.  *)
calculate_state_root_with_updates_without_diff(db, rt, batch, post_state, order, account_nodes, storage_nodes) ==
    LET counted(r, b, n) ==
            IF ~n.ok THEN [cur |-> r.cur, batch |-> b, ret |-> n]
            ELSE [cur |-> r.cur,
                  batch |-> IF n.val = 0 THEN StageMinimalRoot(b) ELSE b,
                  ret |-> r.ret]
        rooted(r) ==
            IF ~r.ret.ok THEN [cur |-> r.cur, batch |-> batch, ret |-> r.ret]
            ELSE counted(r, commit_trie_updates(batch, account_nodes, storage_nodes),
                         entries(db, AccountTrieTable))
    IN  rooted(calculate_state_root(db, rt, EmptyCf, <<>>))

calculate_state_root_with_updates(db, rt, batch, post_state, order, account_nodes, storage_nodes) ==
    LET counted(r, b, n) ==
            IF ~n.ok THEN [cur |-> r.cur, batch |-> b, ret |-> n]
            ELSE [cur |-> r.cur,
                  batch |-> IF n.val = 0 THEN StageMinimalRoot(b) ELSE b,
                  ret |-> r.ret]
        rooted(r) ==
            IF ~r.ret.ok THEN [cur |-> r.cur, batch |-> batch, ret |-> r.ret]
            ELSE counted(r, commit_trie_updates(batch, account_nodes, storage_nodes),
                         entries(db, AccountTrieTable))
    IN  rooted(calculate_state_root(db, rt, post_state, order))

\* post-state diffs as maps: hashed address to the new account, or None
PostStates == UNION {[K -> {NoneV, Some(2)}] : K \in SUBSET DiffKeys}

\* paths of the account branch nodes a walk emits, and the address and
\* sub-paths of the storage branch nodes
UpdatePaths == {<<>>, <<1>>}
UpdateAddress == B256(1)

\* The updates of one walk.  The node at the empty path is the root node and
\* carries the root; a walk that the stored root node prunes, or that finds
\* no leaf, emits none.
AccountUpdates(root) ==
    UNION {{m \in [P -> BranchNodes \cup {root}] :
               /\ <<>> \in P => m[<<>>] = root
               /\ <<1>> \in P => m[<<1>>] \in BranchNodes}
             : P \in SUBSET UpdatePaths}
StorageUpdates == UNION {[P -> {1}] : P \in SUBSET SubKeys}

Walked(db, post_state, root) ==
    /\ root # EMPTY_ROOT_HASH
    /\ root = hash_builder_root(AscendingEntries(LeavesOf(db, post_state)))

\* the emitted storage nodes in the order their map iterates
StorageEntriesOf(m, order) == [i \in 1..Len(order) |-> <<UpdateAddress, order[i], m[order[i]]>>]

UpdTrace(phase, post_state, root, account_nodes, storage_nodes) ==
    [phase |-> phase, post_state |-> post_state, root |-> root,
     account_nodes |-> account_nodes, storage_nodes |-> storage_nodes]

\* calculate_state_root_with_updates(read transaction 1, write transaction 2, diff)
WithUpdates(post_state, order) ==
    /\ trace.phase = "init"
    /\ Active(2) /\ txs[2].write
    /\ \E am \in AccountUpdates(calculate_state_root(engine, 1, post_state, order).ret.val),
          sm \in StorageUpdates :
         \E ao \in Orders(DOMAIN am), so \in Orders(DOMAIN sm) :
            LET done(r) ==
                    /\ (DOMAIN am # {} \/ DOMAIN sm # {})
                          => Walked(engine, post_state, r.ret.val)
                    /\ cur' = r.cur
                    /\ txs' = [txs EXCEPT ![2].batch = r.batch]
                    /\ last' = [op |-> "calculate_state_root_with_updates", tx |-> 2,
                                table |-> AccountTrieTable, key |-> post_state,
                                sub |-> order, ret |-> r.ret, pre |-> engine,
                                batch |-> r.batch]
                    /\ trace' = UpdTrace("staged", post_state, r.ret,
                                         MapEntries(am, ao), StorageEntriesOf(sm, so))
            IN  done(calculate_state_root_with_updates(
                         engine, 1, txs[2].batch, post_state, order,
                         MapEntries(am, ao), StorageEntriesOf(sm, so)))
    /\ UNCHANGED engine

\* the write transaction commits
CommitUpdates ==
    /\ trace.phase = "staged"
    /\ Active(2)
    /\ engine' = CommitWrite(engine, txs[2].batch)
    /\ txs' = [txs EXCEPT ![2] = [state |-> "committed", write |-> TRUE, batch |-> <<>>]]
    /\ last' = [op |-> "commit", tx |-> 2, table |-> AccountTrieTable, key |-> <<>>,
                sub |-> <<>>, ret |-> Ok(NoneV), pre |-> engine, batch |-> txs[2].batch]
    /\ trace' = [trace EXCEPT !.phase = "committed"]
    /\ UNCHANGED cur

\* calculate_state_root over the read transaction, before the update or
\* after its commit
Recalculate(post_state, order) ==
    /\ trace.phase \in {"init", "committed"}
    /\ LET done(r) ==
               /\ cur' = r.cur
               /\ last' = [op |-> "calculate_state_root", tx |-> 1,
                           table |-> HashedAccounts, key |-> post_state, sub |-> order,
                           ret |-> r.ret, pre |-> engine, batch |-> <<>>]
       IN  done(calculate_state_root(engine, 1, post_state, order))
    /\ trace' = IF trace.phase = "init" THEN [trace EXCEPT !.phase = "read"]
                ELSE UpdTrace("recalculated", trace.post_state, trace.root, <<>>, <<>>)
    /\ UNCHANGED <<engine, txs>>

\* after the commit, seek_exact of the storage-trie cursor of the address
\* over the read transaction
SeekStorageNode(key) ==
    /\ trace.phase = "committed"
    /\ last' = [op |-> "storage_seek_exact", tx |-> 1, table |-> StorageTrieTable,
                key |-> key, sub |-> <<>>,
                ret |-> storage_seek_exact(engine, storage_trie_cursor(1, UpdateAddress), key).ret,
                pre |-> engine, batch |-> <<>>]
    /\ UNCHANGED <<engine, txs, cur, trace>>

\* the tables of the calculator
RootTables == {AccountTrieTable, StorageTrieTable, TrieTable, HashedAccounts}

\* the account-trie tables a run starts from: empty, a root node, a deeper node
StoredTries == {EmptyCf,
                CfPut(EmptyCf, EncodeNibbles(<<>>), CompressBranch(1)),
                CfPut(EmptyCf, EncodeNibbles(<<1>>), CompressBranch(2))}

InitUpdates ==
    /\ \E cf \in Contents(HashedAccounts), tf \in StoredTries :
          engine = [U \in RootTables |->
                       IF U = HashedAccounts THEN cf
                       ELSE IF U = AccountTrieTable THEN tf ELSE EmptyCf]
    /\ cur = NoCursor
    /\ txs = [t \in TxIds |-> [state |-> "active", write |-> t = 2, batch |-> <<>>]]
    /\ last = [op |-> "init", tx |-> 0, table |-> HashedAccounts, key |-> <<>>,
               sub |-> <<>>, ret |-> Ok(NoneV), pre |-> engine, batch |-> <<>>]
    /\ trace = UpdTrace("init", EmptyCf, Ok(NoneV), <<>>, <<>>)

NextUpdates ==
    \/ \E post_state \in PostStates :
          \E order \in Orders(DOMAIN post_state) : WithUpdates(post_state, order)
    \/ CommitUpdates
    \/ \E post_state \in PostStates :
          \E order \in Orders(DOMAIN post_state) : Recalculate(post_state, order)
    \/ \E key \in SubKeys : SeekStorageNode(key)

SpecUpdates == InitUpdates /\ [][NextUpdates]_vars

C22_EmittedAccountNodesStored ==
    trace.phase = "committed" =>
        \A i \in 1..Len(trace.account_nodes) :
            /\ CfGet(engine[AccountTrieTable], EncodeNibbles(trace.account_nodes[i][1]))
                  = Some(CompressBranch(trace.account_nodes[i][2]))
            /\ CfGet(engine[TrieTable],
                     keccak256(encode_branch_node_to_rlp(trace.account_nodes[i][2])))
                  = Some(encode_branch_node_to_rlp(trace.account_nodes[i][2]))

\* the entries of a storage-trie column family that belong to an address
EntriesOfAddress(cf, a) ==
    {k \in DOMAIN cf : Len(k) >= B256Len /\ SubSeq(k, 1, B256Len) = EncodeB256(a)}

\* C23: after the commit, every storage branch node (address a, sub-path p)
\* the walk emitted is stored as an entry of a with sub-path p, so that an
\* address with n emitted sub-paths has n entries.
C23_EmittedStorageNodesStored ==
    trace.phase = "committed" =>
        \A i \in 1..Len(trace.storage_nodes) :
            \E k \in EntriesOfAddress(engine[StorageTrieTable], trace.storage_nodes[i][1]) :
                /\ DecompressTrieNodeValue(engine[StorageTrieTable][k]).ok
                /\ DecompressTrieNodeValue(engine[StorageTrieTable][k]).val.nibbles
                      = trace.storage_nodes[i][2]

\* the batch stages the minimal root node at the empty path
MinimalStaged(batch) ==
    \E i \in 1..Len(batch) :
        batch[i] = PutOp(AccountTrieTable, EncodeNibbles(<<>>), CompressBranch(minimal_branch))

\* C24: calculate_state_root_with_updates stages the minimal root node
\* exactly when the walk emitted no node and the diff is not empty; with an
\* empty diff it stages nothing.
C24_MinimalRootIffNoNodeAndDiff ==
    (last.op = "calculate_state_root_with_updates" /\ last.ret.ok) =>
        /\ MinimalStaged(last.batch)
              <=> /\ trace.account_nodes = <<>>
                  /\ trace.storage_nodes = <<>>
                  /\ DOMAIN last.key # {}
        /\ DOMAIN last.key = {} => last.batch = <<>>

\* C25: over an empty hashed-accounts table and with an empty diff, both
\* calculate_state_root and calculate_state_root_with_updates return the
\* root of the empty trie.
C25_EmptyStateRoot ==
    (/\ last.op \in {"calculate_state_root", "calculate_state_root_with_updates"}
     /\ last.pre[HashedAccounts] = EmptyCf
     /\ DOMAIN last.key = {}) =>
        last.ret = Ok(EMPTY_ROOT_HASH)

-----------------------------------------------------------------------------
(* Further properties of the transaction. *)

\* C26: after a clear of table T has been staged last in a batch and the
\* batch has committed, T holds no entry at all, and every table the batch
\* did not touch holds what it held.
C26_ClearEmptiesTable ==
    CommittedOk =>
        \A T \in Tables :
            (last.batch # <<>> /\ last.batch[Len(last.batch)] = ClearOp(T)) =>
                /\ engine[T] = EmptyCf
                /\ \A U \in Tables \ {T} :
                      (\A i \in 1..Len(last.batch) : last.batch[i].table # U)
                          => engine[U] = last.pre[U]

(* Two transactions over one database, with the content the database had *)
(* when each transaction was created kept beside them.                    *)

\* RocksTransaction::new, remembering the engine's content at creation
SnapBegin(t, w) ==
    /\ txs[t].state = "none"
    /\ txs' = [txs EXCEPT ![t] = [state |-> "active", write |-> w, batch |-> <<>>]]
    /\ last' = Rec("begin", t, AccountTrieTable, <<>>, Ok(NoneV), <<>>)
    /\ trace' = [trace EXCEPT !.created[t] = engine]
    /\ UNCHANGED <<engine, cur>>

InitSnap ==
    /\ engine = [T \in Tables |-> EmptyCf]
    /\ txs = [t \in TxIds |-> NoTx]
    /\ cur = NoCursor
    /\ last = [op |-> "init", tx |-> 0, table |-> AccountTrieTable, key |-> <<>>,
               sub |-> <<>>, ret |-> Ok(NoneV), pre |-> [T \in Tables |-> EmptyCf],
               batch |-> <<>>]
    /\ trace = [created |-> [t \in TxIds |-> [T \in Tables |-> EmptyCf]]]

\* the table the two transactions read and write
SnapTables == {AccountTrieTable}

NextSnap ==
    \/ \E t \in TxIds, w \in BOOLEAN : SnapBegin(t, w)
    \/ \E t \in TxIds, T \in SnapTables : \E k \in TxKeys(T), v \in ValuesOf(T) : Put(t, T, k, v)
    \/ \E t \in TxIds, T \in SnapTables : \E k \in TxKeys(T) : Delete(t, T, k)
    \/ \E t \in TxIds, T \in SnapTables : \E k \in TxKeys(T) : Get(t, T, k)
    \/ \E t \in TxIds, T \in SnapTables : \E k \in TxKeys(T) : ReadSeekExact(t, T, k)
    \/ \E t \in TxIds : Commit(t)

SpecSnap == InitSnap /\ [][NextSnap]_vars

\* C27: every get and every cursor read through a transaction returns what
\* the database held when the transaction was created, even when another
\* transaction has committed since.
C27_ReadsStateAsOfCreation ==
    \A k \in TxKeys(last.table) :
        EncodeKey(last.table, k) = last.key =>
            /\ last.op = "get" =>
                  last.ret = TxGet(trace.created[last.tx], last.table, k)
            /\ last.op = "cursor_seek_exact" =>
                  last.ret = seek_exact(trace.created[last.tx],
                                        NewCursor(trace.created[last.tx], last.table, last.tx),
                                        k).ret

-----------------------------------------------------------------------------
(* Threads staging through one write transaction.  put and delete lock the *)
(* batch mutex, append their operation to the batch and unlock; the append *)
(* reads the batch and writes it back, which only the mutex makes one step *)
(* for the other threads.                                                  *)

\* threads sharing write transaction 1; transaction 2 is a reader
Threads == {1, 2}

(* Mutex::lock: acquired when no thread holds the mutex, else the caller *)
(* stays blocked.                                                        *)
mutex_lock_no_exclusion(holder, th) == [acquired |-> TRUE, holder |-> th]

mutex_lock(holder, th) ==
    IF holder = 0 THEN [acquired |-> TRUE, holder |-> th]
    ELSE [acquired |-> FALSE, holder |-> holder]

\* number of occurrences of x in the sequence q
RECURSIVE Count(_, _)
Count(q, x) ==
    IF q = <<>> THEN 0 ELSE (IF Head(q) = x THEN 1 ELSE 0) + Count(Tail(q), x)

\* the operations threads may stage
ThreadOps ==
    {PutOp(AccountTrieTable, EncodeKey(AccountTrieTable, k), Compress(AccountTrieTable, v)) :
        k \in TxKeys(AccountTrieTable), v \in BranchNodes}
    \cup {DeleteOp(AccountTrieTable, EncodeKey(AccountTrieTable, k)) :
             k \in TxKeys(AccountTrieTable)}

\* a thread calls put or delete: it is about to lock the batch mutex
ConcCall(th, o) ==
    /\ Active(1)
    /\ trace.pc[th] = "idle"
    /\ Len(trace.issued) < MaxStaged
    /\ trace' = [trace EXCEPT !.pc[th] = "lock", !.op[th] = o,
                              !.issued = Append(@, o),
                              !.callers = @ \cup {th}]
    /\ last' = Rec(o.op, 1, AccountTrieTable, o.key, Ok(NoneV), <<>>)
    /\ UNCHANGED <<engine, txs, cur>>

\* batch.lock()
ConcLock(th) ==
    /\ trace.pc[th] = "lock"
    /\ mutex_lock(trace.mutex, th).acquired
    /\ trace' = [trace EXCEPT !.pc[th] = "read",
                              !.mutex = mutex_lock(trace.mutex, th).holder]
    /\ UNCHANGED <<engine, txs, cur, last>>

\* batch_guard.put_cf / delete_cf, first half: the batch is read
ConcRead(th) ==
    /\ trace.pc[th] = "read"
    /\ trace' = [trace EXCEPT !.pc[th] = "write", !.local[th] = txs[1].batch,
                              !.contended = @ \/ \E u \in Threads \ {th} : trace.pc[u] = "lock"]
    /\ UNCHANGED <<engine, txs, cur, last>>

\* second half: the batch with the operation appended is written back
ConcWrite(th) ==
    /\ trace.pc[th] = "write"
    /\ txs' = [txs EXCEPT ![1].batch = Append(trace.local[th], trace.op[th])]
    /\ trace' = [trace EXCEPT !.pc[th] = "unlock"]
    /\ UNCHANGED <<engine, cur, last>>

\* the guard is dropped when put or delete returns
ConcUnlock(th) ==
    /\ trace.pc[th] = "unlock"
    /\ trace' = [trace EXCEPT !.pc[th] = "idle",
                              !.mutex = IF @ = th THEN 0 ELSE @]
    /\ UNCHANGED <<engine, txs, cur, last>>

\* commit(self): the transaction is owned again, so no thread is inside it
ConcCommit ==
    /\ \A th \in Threads : trace.pc[th] = "idle"
    /\ Commit(1)

\* the database the threads start from
ConcEngine ==
    [T \in Tables |-> IF T = AccountTrieTable
                      THEN CfPut(EmptyCf, EncodeNibbles(<<1>>), CompressBranch(1))
                      ELSE EmptyCf]

InitConc ==
    /\ engine = ConcEngine
    /\ txs = [t \in TxIds |-> [state |-> "active", write |-> t = 1, batch |-> <<>>]]
    /\ cur = NoCursor
    /\ last = [op |-> "init", tx |-> 0, table |-> AccountTrieTable, key |-> <<>>,
               sub |-> <<>>, ret |-> Ok(NoneV), pre |-> ConcEngine, batch |-> <<>>]
    /\ trace = [pc |-> [th \in Threads |-> "idle"],
                op |-> [th \in Threads |-> DeleteOp(AccountTrieTable, <<>>)],
                local |-> [th \in Threads |-> <<>>],
                mutex |-> 0, issued |-> <<>>, callers |-> {}, contended |-> FALSE]

NextConc ==
    \/ \E th \in Threads, o \in ThreadOps : ConcCall(th, o)
    \/ \E th \in Threads : ConcLock(th)
    \/ \E th \in Threads : ConcRead(th)
    \/ \E th \in Threads : ConcWrite(th)
    \/ \E th \in Threads : ConcUnlock(th)
    \/ ConcCommit
    \/ \E k \in TxKeys(AccountTrieTable) : Get(2, AccountTrieTable, k)

SpecConc == InitConc /\ [][NextConc]_vars

\* C28: when several threads stage puts and deletes through the same write
\* transaction, the batch that commit applies holds every staged operation
\* exactly once, and no staged operation is visible to a reader before the
\* commit.
C28_ConcurrentStagingSerialised ==
    /\ CommittedOk =>
          \A o \in ThreadOps : Count(last.batch, o) = Count(trace.issued, o)
    /\ Active(1) =>
          /\ engine = ConcEngine
          /\ last.op = "get" =>
                \A k \in TxKeys(AccountTrieTable) :
                    EncodeKey(AccountTrieTable, k) = last.key =>
                        last.ret = TxGet(ConcEngine, AccountTrieTable, k)

C28_Witness ==
    /\ CommittedOk
    /\ Len(last.batch) = 2
    /\ trace.callers = Threads
    /\ trace.contended
    /\ engine # ConcEngine

-----------------------------------------------------------------------------
(* The key codecs as functions: a pair of inputs, then the encoding. *)

\* nibble paths up to MaxPathLen over the least, a middle and the greatest nibble
PathNibbles == {0, 1, MaxNibble}
NibblePaths == SeqsUpTo(PathNibbles, MaxPathLen)

(* Ord of Nibbles: nibble by nibble, a proper prefix first. *)
RECURSIVE NibblesLess(_, _)
NibblesLess(a, b) ==
    IF b = <<>> THEN FALSE
    ELSE IF a = <<>> THEN TRUE
    ELSE IF Head(a) # Head(b) THEN Head(a) < Head(b)
    ELSE NibblesLess(Tail(a), Tail(b))

\* TrieNibbles(a).encode() and TrieNibbles(b).encode()
EncodePaths ==
    /\ last.op = "paths"
    /\ last' = [last EXCEPT !.op = "encode",
                            !.ret = Ok(<<EncodeKey(AccountTrieTable, last.key),
                                         EncodeKey(AccountTrieTable, last.sub)>>)]
    /\ UNCHANGED <<engine, txs, cur, trace>>

InitNibbles ==
    /\ engine = [T \in Tables |-> EmptyCf]
    /\ txs = [t \in TxIds |-> NoTx]
    /\ cur = NoCursor
    /\ trace = NoTrace
    /\ \E a \in NibblePaths, b \in NibblePaths :
          last = [op |-> "paths", tx |-> 0, table |-> AccountTrieTable, key |-> a,
                  sub |-> b, ret |-> Ok(NoneV), pre |-> [T \in Tables |-> EmptyCf],
                  batch |-> <<>>]

NextNibbles == EncodePaths

SpecNibbles == InitNibbles /\ [][NextNibbles]_vars

\* C29: the encoding of nibble paths preserves their order: a is below b
\* nibble by nibble exactly when encode(a) is below encode(b) byte by byte.
C29_NibbleEncodingOrderPreserving ==
    last.op = "encode" =>
        (NibblesLess(last.key, last.sub)
            <=> BytesLess(last.ret.val[1], last.ret.val[2]))

C29_Witness ==
    /\ last.op = "encode"
    /\ last.key = <<1>> /\ last.sub = <<1, 0>>
    /\ BytesLess(last.ret.val[1], last.ret.val[2])

\* dup-sort tables, their keys with and without a byte equal to the
\* delimiter, and their sub-keys
DupTables == {StorageTrieTable, HashedStorages}
B256With(b, i, x) == [j \in 1..B256Len |-> IF j = i THEN x ELSE b]
CompositeKeys ==
    {B256(0), B256(1), B256(DELIMITER), B256With(1, 1, DELIMITER),
     B256With(1, B256Len, DELIMITER)}
CompositeSubKeys(T) ==
    IF T = HashedStorages THEN {B256(3), B256(DELIMITER)} ELSE NibblePaths

(* SubKey::decode: a 32-byte hash, or nibbles one per byte *)
DecodeSubKey(T, bytes) ==
    IF T = HashedStorages THEN DecodeB256(bytes) ELSE DecodeNibbles(bytes)

(* DupSortHelper::split_composite_key: cut at the first delimiter byte, the *)
(* key decoded before the sub-key.                                           *)
split_composite_key(T, composite) ==
    LET at(pos) ==
            LET decoded(k, sk) ==
                    IF ~k.ok THEN k ELSE IF ~sk.ok THEN sk ELSE Ok(<<k.val, sk.val>>)
            IN  decoded(DecodeKey(T, SubSeq(composite, 1, pos - 1)),
                        DecodeSubKey(T, SubSeq(composite, pos + 1, Len(composite))))
    IN  IF \E i \in 1..Len(composite) : composite[i] = DELIMITER
        THEN at(CHOOSE i \in 1..Len(composite) :
                   /\ composite[i] = DELIMITER
                   /\ \A j \in 1..(i - 1) : composite[j] # DELIMITER)
        ELSE Err("Decode")

\* create_composite_key(key, subkey), then split_composite_key of the result
ComposeSplit ==
    /\ last.op = "pair"
    /\ last' = [last EXCEPT
                  !.op = "split",
                  !.batch = create_composite_key(last.table, last.key, last.sub),
                  !.ret = split_composite_key(
                              last.table,
                              create_composite_key(last.table, last.key, last.sub))]
    /\ UNCHANGED <<engine, txs, cur, trace>>

InitComposite ==
    /\ engine = [T \in Tables |-> EmptyCf]
    /\ txs = [t \in TxIds |-> NoTx]
    /\ cur = NoCursor
    /\ trace = NoTrace
    /\ \E T \in DupTables : \E k \in CompositeKeys, sk \in CompositeSubKeys(T) :
          last = [op |-> "pair", tx |-> 0, table |-> T, key |-> k, sub |-> sk,
                  ret |-> Ok(NoneV), pre |-> [U \in Tables |-> EmptyCf], batch |-> <<>>]

NextComposite == ComposeSplit

SpecComposite == InitComposite /\ [][NextComposite]_vars

\* C30: splitting the composite key of a key and a sub-key gives back the
\* key and the sub-key.
C30_SplitInvertsCompose ==
    last.op = "split" => last.ret = Ok(<<last.key, last.sub>>)

-----------------------------------------------------------------------------
(* Properties of delete_current. *)

\* the entry that follows the key kb in the order of the column family cf
Following(cf, kb) ==
    LET after == {x \in DOMAIN cf : BytesLess(kb, x)}
    IN  IF after = {} THEN NoneV ELSE Some(<<MinKey(after), cf[MinKey(after)]>>)

\* C31: delete_current removes exactly the entry at the current position and
\* advances by one: afterwards the cursor is on the entry that immediately
\* followed the removed one in key order (unpositioned if the removed entry
\* was the last), and no other entry is removed.
C31_DeleteCurrentAdvancesByOne ==
    (/\ last.op = "delete_current"
     /\ last.ret.ok
     /\ IsSome(last.sub)
     /\ Unwrap(last.sub)[1] \in DOMAIN last.pre[last.table])
    => /\ engine = [last.pre EXCEPT ![last.table] = CfDelete(@, Unwrap(last.sub)[1])]
       /\ cur.current_item = Following(last.pre[last.table], Unwrap(last.sub)[1])

-----------------------------------------------------------------------------
(* Properties of seek_exact on a miss. *)

\* the cursor with the position it held before the last operation
Before == [cur EXCEPT !.current_item = last.sub]

\* C32: seek_exact(k) on a miss leaves the cursor position unchanged: when k
\* is not stored, current after the call returns the same entry (or None) as
\* before the call, and a following next or prev continues from the position
\* held before the call.
C32_SeekExactMissKeepsPosition ==
    (/\ last.op = "seek_exact"
     /\ last.ret = Ok(NoneV)
     /\ last.key \notin DOMAIN engine[last.table])
    => /\ current(engine, cur).ret = current(engine, Before).ret
       /\ next(engine, cur).ret = next(engine, Before).ret
       /\ prev(engine, cur).ret = prev(engine, Before).ret

-----------------------------------------------------------------------------
(* Properties of next and prev on an unpositioned cursor. *)

\* the operations after which a None leaves the cursor unpositioned
UnpositioningOps == {"first", "last", "seek", "next", "prev"}

\* C33: when the cursor is unpositioned (first, last or seek found nothing,
\* or next or prev ran off an end of the table), next returns the entry and
\* leaves the position that first would, and prev returns the entry and
\* leaves the position that last would.
C33_UnpositionedNextIsFirst ==
    (/\ last.op \in {"next", "prev"}
     /\ last.sub.op \in UnpositioningOps
     /\ last.sub.ret = Ok(NoneV))
    => LET same == IF last.op = "next"
                   THEN IF cur.dup THEN dup_first(last.pre, cur) ELSE first(last.pre, cur)
                   ELSE IF cur.dup THEN dup_last(last.pre, cur) ELSE last_(last.pre, cur)
       IN  /\ last.ret = ThreadSafe(same).ret
           /\ cur = ThreadSafe(same).cur

\* next ran off the end of a table that holds entries, and prev gave the last
C33_Witness ==
    /\ last.op = "prev"
    /\ last.sub.op = "next" /\ last.sub.ret = Ok(NoneV)
    /\ last.ret.ok /\ IsSome(last.ret.val)
    /\ Cardinality(DOMAIN engine[cur.table]) >= 2

-----------------------------------------------------------------------------
(* walk_range: the cursor is positioned on the start of the range and a    *)
(* RangeWalker is handed out, which yields the start item first and then   *)
(* what next returns, until an item lies beyond the end bound or next      *)
(* returns None.                                                           *)

Included(key) == [kind |-> "Included", key |-> key]
Excluded(key) == [kind |-> "Excluded", key |-> key]
Unbounded == [kind |-> "Unbounded", key |-> <<>>]

\* the end bound admits the key
WithinEnd(end_key, key) ==
    IF end_key.kind = "Included" THEN key = end_key.key \/ NibblesLess(key, end_key.key)
    ELSE IF end_key.kind = "Excluded" THEN NibblesLess(key, end_key.key)
    ELSE TRUE

(* RangeWalker::new: nothing to yield when there is no start item or the *)
(* start item lies beyond the end bound.                                 *)
RangeWalker_new(start, end_key) ==
    [active |-> TRUE, start |-> start, end_key |-> end_key,
     is_done |-> ~IsSome(start) \/ ~WithinEnd(end_key, Unwrap(start)[1]),
     seq |-> <<>>, ended |-> FALSE]

NoWalker ==
    [active |-> FALSE, start |-> NoneV, end_key |-> Unbounded, is_done |-> TRUE,
     seq |-> <<>>, ended |-> FALSE]

(* RangeWalker::next *)
RangeWalker_next(db, c, w) ==
    IF w.is_done THEN [cur |-> c, walker |-> w, ret |-> NoneV]
    ELSE LET n == IF IsSome(w.start) THEN [cur |-> c, ret |-> Ok(w.start)] ELSE next(db, c)
             taken == [w EXCEPT !.start = NoneV]
         IN  IF ~n.ret.ok
             THEN [cur |-> n.cur, walker |-> taken, ret |-> Some(n.ret)]
             ELSE IF IsSome(n.ret.val) /\ WithinEnd(w.end_key, Unwrap(n.ret.val)[1])
                  THEN [cur |-> n.cur, walker |-> taken, ret |-> Some(Ok(Unwrap(n.ret.val)))]
             ELSE [cur |-> n.cur, walker |-> [taken EXCEPT !.is_done = TRUE], ret |-> NoneV]

(* RocksCursor::walk_range *)
walk_range(db, c, start_bound, end_bound) ==
    LET s == IF start_bound.kind = "Unbounded" THEN first(db, c) ELSE seek(db, c, start_bound.key)
        start == IF start_bound.kind = "Excluded" /\ s.ret.ok /\ IsSome(s.ret.val)
                 THEN next(db, s.cur)
                 ELSE s
    IN  IF ~start.ret.ok THEN [cur |-> start.cur, walker |-> NoWalker, ret |-> start.ret]
        ELSE [cur |-> start.cur, walker |-> RangeWalker_new(start.ret.val, end_bound),
              ret |-> Ok(NoneV)]

\* the bounds of the ranges walked
RangeBounds ==
    {Unbounded} \cup {Included(k) : k \in SeekKeys(AccountTrieTable)}
                \cup {Excluded(k) : k \in SeekKeys(AccountTrieTable)}

\* the record of walk_range keeps the start bound as key and the end bound as sub
WalkRange(start_bound, end_bound) ==
    /\ cur.open /\ ~trace.active
    /\ cur' = ThreadSafe(walk_range(engine, cur, start_bound, end_bound)).cur
    /\ trace' = walk_range(engine, cur, start_bound, end_bound).walker
    /\ last' = CRec("walk_range", start_bound, end_bound,
                    ThreadSafe(walk_range(engine, cur, start_bound, end_bound)).ret)
    /\ UNCHANGED <<engine, txs>>

\* one item is taken from the walker; the loop over it ends with the first None
WalkerNext ==
    /\ trace.active /\ ~trace.ended
    /\ LET n == RangeWalker_next(engine, cur, trace)
       IN  /\ cur' = n.cur
           /\ trace' = IF IsSome(n.ret) /\ Unwrap(n.ret).ok
                       THEN [n.walker EXCEPT !.seq = Append(@, Unwrap(n.ret).val)]
                       ELSE [n.walker EXCEPT !.ended = TRUE]
           /\ last' = [last EXCEPT !.op = "walker_next", !.ret = Ok(n.ret)]
    /\ UNCHANGED <<engine, txs>>

\* a read cursor over some content of the account-trie table
InitWalk ==
    /\ \E cf \in Contents(AccountTrieTable) :
          /\ engine = [U \in Tables |-> IF U = AccountTrieTable THEN cf ELSE EmptyCf]
          /\ cur = NewCursor(engine, AccountTrieTable, 1)
    /\ txs = [t \in TxIds |-> IF t = 1 THEN [state |-> "active", write |-> FALSE, batch |-> <<>>]
                              ELSE NoTx]
    /\ last = [op |-> "init", tx |-> 0, table |-> AccountTrieTable, key |-> <<>>,
               sub |-> <<>>, ret |-> Ok(NoneV), pre |-> [T \in Tables |-> EmptyCf],
               batch |-> <<>>]
    /\ trace = NoWalker

NextWalk ==
    \/ \E lo \in RangeBounds, hi \in RangeBounds : WalkRange(lo, hi)
    \/ WalkerNext

SpecWalk == InitWalk /\ [][NextWalk]_vars

\* the start bound admits the key
WithinStart(start_bound, key) ==
    IF start_bound.kind = "Included" THEN key = start_bound.key \/ NibblesLess(start_bound.key, key)
    ELSE IF start_bound.kind = "Excluded" THEN NibblesLess(start_bound.key, key)
    ELSE TRUE

\* C34: walk_range(r) yields exactly the stored entries whose keys lie within
\* r, in ascending order and each once, and stops at the end bound, for every
\* combination of included, excluded and unbounded start and end bounds,
\* including an excluded start key that is not itself stored.
C34_WalkRangeYieldsRange ==
    (last.op = "walker_next" /\ trace.ended)
    => trace.seq = AscendingEntries({e \in Stored(AccountTrieTable, engine[AccountTrieTable]) :
                                        /\ WithinStart(last.key, e[1])
                                        /\ WithinEnd(last.sub, e[1])})

-----------------------------------------------------------------------------
(* Errors of cursor operations: a database whose account-trie column     *)
(* family holds key bytes outside the codec, and an engine whose iterator *)
(* may fail.  The cursor is one that cursor_read handed out: the first    *)
(* item of the table decodes.                                             *)

(* `Some(Err(e)) => Err(DatabaseError::Other(e.to_string()))`: the iterator *)
(* failed; the cursor keeps its item.                                       *)
iterator_error(c) == [cur |-> c, ret |-> Err("Other")]

\* key bytes of the column family: two nibble paths and a byte that is no nibble
RawKeys == {<<1>>, <<2>>, <<MaxNibble + 1>>}

RawContents == UNION {[S -> {CompressBranch(1)}] : S \in SUBSET RawKeys}

EngineOps == {"first", "last", "next", "prev", "seek", "seek_exact"}

\* an operation during which the iterator of the engine fails
CEngineFails(op) ==
    /\ cur.open
    /\ cur' = ThreadSafe(iterator_error(cur)).cur
    /\ last' = CRec(op, <<>>, <<>>, ThreadSafe(iterator_error(cur)).ret)
    /\ trace' = [NoTrace EXCEPT !.mode = "engine_error"]
    /\ UNCHANGED <<engine, txs>>

InitDecode ==
    /\ \E cf \in RawContents :
          /\ engine = [U \in Tables |-> IF U = AccountTrieTable THEN cf ELSE EmptyCf]
          /\ cursor_read(engine, AccountTrieTable, 1).ret.ok
          /\ cur = cursor_read(engine, AccountTrieTable, 1).cur
    /\ txs = [t \in TxIds |-> IF t = 1 THEN [state |-> "active", write |-> FALSE, batch |-> <<>>]
                              ELSE NoTx]
    /\ last = [op |-> "init", tx |-> 0, table |-> AccountTrieTable, key |-> <<>>,
               sub |-> <<>>, ret |-> Ok(NoneV), pre |-> [T \in Tables |-> EmptyCf],
               batch |-> <<>>]
    /\ trace = [NoTrace EXCEPT !.mode = "new"]

NextDecode ==
    \/ CFirst
    \/ CLast
    \/ CNext
    \/ CPrev
    \/ \E k \in {<<1>>, <<3>>} : CSeek(k)
    \/ \E k \in {<<1>>, <<3>>} : CSeekExact(k)
    \/ CCurrent
    \/ \E op \in EngineOps : CEngineFails(op)

SpecDecode == InitDecode /\ [][NextDecode]_vars

\* the last operation decoded the item the cursor holds, and its key or value
\* bytes are outside the codec
MetUndecodable ==
    /\ last.op \in EngineOps \cup {"current"}
    /\ trace.mode # "engine_error"
    /\ IsSome(cur.current_item)
    /\ \/ ~DecodeKey(cur.table, Unwrap(cur.current_item)[1]).ok
       \/ ~Decompress(cur.table, Unwrap(cur.current_item)[2]).ok

\* C35: a cursor operation that meets stored key or value bytes it cannot
\* decode returns DatabaseError::Decode, a failure of the engine itself
\* returns DatabaseError::Other, and the two kinds are never exchanged.
C35_DecodeAndEngineErrorKinds ==
    /\ MetUndecodable => last.ret = Err("Decode")
    /\ (last.op \in EngineOps /\ trace.mode = "engine_error") => last.ret = Err("Other")

-----------------------------------------------------------------------------
(* The decoders as functions: a byte string, then TrieNibbles::decode or *)
(* TrieNodeValue::decompress of it.                                      *)

\* byte strings up to MaxPathLen over the nibbles 0, 1 and 15, the least byte
\* that is no nibble, and the greatest byte
PathBytes == SeqsUpTo(PathNibbles \cup {MaxNibble + 1, DELIMITER}, MaxPathLen)

\* byte strings around the length of the node hash: empty, shorter, as long,
\* longer
NodeValueBytes ==
    {[i \in 1..n |-> b] : n \in {0, 1, 2, B256Len - 1, B256Len, B256Len + 1, B256Len + 2},
                          b \in {0, 1, MaxNibble + 1, DELIMITER}}

DecodeBytes ==
    /\ last.op = "bytes" /\ last.table = AccountTrieTable
    /\ last' = [last EXCEPT !.op = "decode", !.ret = DecodeNibbles(last.key)]
    /\ UNCHANGED <<engine, txs, cur, trace>>

DecompressBytes ==
    /\ last.op = "bytes" /\ last.table = StorageTrieTable
    /\ last' = [last EXCEPT !.op = "decompress", !.ret = DecompressTrieNodeValue(last.key)]
    /\ UNCHANGED <<engine, txs, cur, trace>>

InitCodec ==
    /\ engine = [T \in Tables |-> EmptyCf]
    /\ txs = [t \in TxIds |-> NoTx]
    /\ cur = NoCursor
    /\ trace = NoTrace
    /\ \E T \in Tables :
       \E bytes \in IF T = AccountTrieTable THEN PathBytes ELSE NodeValueBytes :
          last = [op |-> "bytes", tx |-> 0, table |-> T, key |-> bytes,
                  sub |-> <<>>, ret |-> Ok(NoneV), pre |-> [U \in Tables |-> EmptyCf],
                  batch |-> <<>>]

NextCodec ==
    \/ DecodeBytes
    \/ DecompressBytes

SpecCodec == InitCodec /\ [][NextCodec]_vars

\* C36: decoding fails only by returning a DecodeError: TrieNibbles::decode of
\* bytes with a byte above 0x0F, and TrieNodeValue::decompress of an input
\* shorter than the 32-byte node hash (the lengths 1..31 included), return
\* DatabaseError::Decode; they neither panic nor return a value.
C36_DecodeFailsWithDecodeError ==
    /\ (last.op = "decode" /\ \E i \in 1..Len(last.key) : last.key[i] > MaxNibble)
          => last.ret = Err("Decode")
    /\ (last.op = "decompress" /\ Len(last.key) < B256Len)
          => last.ret = Err("Decode")

-----------------------------------------------------------------------------
(* The invariant of the dup-sort cursor. *)

\* the operations of a dup-sort cursor the invariant is stated for
DupCursorOps ==
    {"first", "last", "seek", "seek_exact", "next", "prev", "next_dup", "next_no_dup",
     "seek_by_key_subkey", "walk_dup", "delete_current"}

\* the logical key of the entry the inner cursor is positioned on
InnerKey(c) ==
    IF IsSome(c.current_item)
    THEN Some(DecodeKey(c.table, Unwrap(c.current_item)[1]).val)
    ELSE NoneV

\* C37: after every operation of a dup-sort cursor the tracked current key is
\* Some(k) exactly when the inner cursor is positioned on an entry whose
\* logical key is k, and None exactly when the inner cursor is unpositioned.
C37_DupCursorTracksInnerKey ==
    (cur.dup /\ last.op \in DupCursorOps /\ last.ret.ok)
    => cur.current_key = InnerKey(cur)

-----------------------------------------------------------------------------
(* import_dupsort: the entries of a dup-sort table of a source database are *)
(* written through a write cursor of the destination transaction.           *)

\* the call does not return: the loop comes back to a source position and
\* entry it has already been at
Loops == [ok |-> FALSE, val |-> <<"loops">>]

(* the loop of import_dupsort: upsert of the current entry, then next_dup, *)
(* and next_no_dup when next_dup returned None; `seen` are the source      *)
(* cursors the loop has started an iteration with                          *)
RECURSIVE import_dupsort_loop(_, _, _, _, _, _)
import_dupsort_loop(db, destination_cursor, source_db, source_cursor, current_entry, seen) ==
    IF ~current_entry.ok THEN [db |-> db, ret |-> current_entry]
    ELSE IF ~IsSome(current_entry.val) THEN [db |-> db, ret |-> Ok(NoneV)]
    ELSE IF source_cursor \in seen THEN [db |-> db, ret |-> Loops]
    ELSE LET u == ThreadSafe(upsert(db, destination_cursor,
                                    Unwrap(current_entry.val)[1], Unwrap(current_entry.val)[2]))
             next_with_same_key == ThreadSafe(next_dup(source_db, source_cursor))
             next_key_group == ThreadSafe(next_no_dup(source_db, next_with_same_key.cur))
         IN  IF ~u.ret.ok THEN [db |-> u.db, ret |-> u.ret]
             ELSE IF ~next_with_same_key.ret.ok THEN [db |-> u.db, ret |-> next_with_same_key.ret]
             ELSE IF IsSome(next_with_same_key.ret.val)
                  THEN import_dupsort_loop(u.db, u.cur, source_db, next_with_same_key.cur,
                                           next_with_same_key.ret, seen \cup {source_cursor})
                  ELSE import_dupsort_loop(u.db, u.cur, source_db, next_key_group.cur,
                                           next_key_group.ret, seen \cup {source_cursor})

(* RocksTransaction::import_dupsort *)
import_dupsort(db, t, source_db, T) ==
    LET destination_cursor == cursor_dup_read(db, T, t)
        source_cursor == cursor_dup_read(source_db, T, 0)
        current_entry == ThreadSafe(dup_first(source_db, source_cursor.cur))
    IN  IF ~destination_cursor.ret.ok THEN [db |-> db, ret |-> destination_cursor.ret]
        ELSE IF ~source_cursor.ret.ok THEN [db |-> db, ret |-> source_cursor.ret]
        ELSE import_dupsort_loop(db, destination_cursor.cur, source_db, current_entry.cur,
                                 current_entry.ret, {})

\* hashed addresses of the source table
ImportKeys == HashKeys \cup {B256(3)}

ImportContents ==
    UNION {[{EncodeKey(StorageTrieTable, k) : k \in S}
               -> {Compress(StorageTrieTable, v) : v \in TrieNodeValues}]
             : S \in SUBSET ImportKeys}

ImportDupsort(t) ==
    /\ Active(t) /\ txs[t].write
    /\ trace.phase = "init"
    /\ engine' = import_dupsort(engine, t, trace.source, StorageTrieTable).db
    /\ last' = Rec("import_dupsort", t, StorageTrieTable, <<>>,
                   import_dupsort(engine, t, trace.source, StorageTrieTable).ret, txs[t].batch)
    /\ trace' = [trace EXCEPT !.phase = "imported",
                              !.ret = import_dupsort(engine, t, trace.source, StorageTrieTable).ret]
    /\ UNCHANGED <<txs, cur>>

\* once import_dupsort has returned the destination transaction commits, or
\* is dropped
ImportCommit(t) ==
    /\ trace.phase = "imported" /\ trace.ret # Loops
    /\ Commit(t)

ImportAbort(t) ==
    /\ trace.phase = "imported" /\ trace.ret # Loops
    /\ Abort(t)

\* a source database, and a write transaction on a destination database that
\* is empty or holds an entry of its own
InitImport ==
    /\ \E source \in ImportContents, own \in SUBSET {B256(1)} :
          /\ trace = [phase |-> "init", ret |-> Ok(NoneV),
                      source |-> [U \in Tables |-> IF U = StorageTrieTable THEN source
                                                   ELSE EmptyCf]]
          /\ engine = [U \in Tables |->
                          IF U = StorageTrieTable
                          THEN [kb \in {EncodeKey(U, k) : k \in own} |->
                                   Compress(U, [nibbles |-> <<6>>, node |-> B256(2)])]
                          ELSE EmptyCf]
    /\ txs = [t \in TxIds |-> IF t = 1 THEN [state |-> "active", write |-> TRUE, batch |-> <<>>]
                              ELSE NoTx]
    /\ cur = NoCursor
    /\ last = [op |-> "init", tx |-> 0, table |-> StorageTrieTable, key |-> <<>>,
               sub |-> <<>>, ret |-> Ok(NoneV), pre |-> [T \in Tables |-> EmptyCf],
               batch |-> <<>>]

NextImport ==
    \/ ImportDupsort(1)
    \/ ImportCommit(1)
    \/ ImportAbort(1)

SpecImport == InitImport /\ [][NextImport]_vars

\* C38: import_dupsort copies every entry of the source dup-sort table: after
\* it has returned and the destination transaction has committed, each
\* (key, value) entry stored in the source table is stored in the destination
\* table, whatever the number of keys and of values per key; the loop of
\* next_dup and next_no_dup skips no entry and terminates.
C38_ImportDupsortCopiesAll ==
    /\ (last.op = "commit" /\ last.ret.ok /\ trace.phase = "imported" /\ trace.ret.ok)
          => \A kb \in DOMAIN trace.source[StorageTrieTable] :
                /\ kb \in DOMAIN engine[StorageTrieTable]
                /\ engine[StorageTrieTable][kb] = trace.source[StorageTrieTable][kb]
    /\ trace.phase = "imported" => trace.ret # Loops

-----------------------------------------------------------------------------
(* A cursor enumeration, first and then next until None, while other      *)
(* transactions commit puts and deletes of single keys.  The cursor opens *)
(* a fresh iterator on the engine for every call, so each call sees what  *)
(* has been committed by then.                                            *)

\* the batches the other transactions commit
ScanBatches ==
    {<<PutOp(AccountTrieTable, EncodeKey(AccountTrieTable, k), Compress(AccountTrieTable, v))>>
        : k \in NibbleKeys, v \in BranchNodes}
    \cup {<<DeleteOp(AccountTrieTable, EncodeKey(AccountTrieTable, k))>> : k \in NibbleKeys}

\* the entries stored ever since the enumeration started
StillStored(db) == trace.stable \cap Stored(AccountTrieTable, db[AccountTrieTable])

ScanFirst ==
    /\ trace.mode = "new"
    /\ cur' = ThreadSafe(first(engine, cur)).cur
    /\ last' = CRec("first", <<>>, <<>>, ThreadSafe(first(engine, cur)).ret)
    /\ trace' = [mode |-> "fwd",
                 seq |-> IF IsSome(first(engine, cur).ret.val) THEN first(engine, cur).ret.val
                         ELSE <<>>,
                 done |-> ~IsSome(first(engine, cur).ret.val),
                 stable |-> Stored(AccountTrieTable, engine[AccountTrieTable]),
                 commits |-> 0]
    /\ UNCHANGED <<engine, txs>>

ScanNext ==
    /\ trace.mode = "fwd" /\ ~trace.done
    /\ cur' = ThreadSafe(next(engine, cur)).cur
    /\ last' = CRec("next", <<>>, <<>>, ThreadSafe(next(engine, cur)).ret)
    /\ trace' = IF IsSome(next(engine, cur).ret.val)
                THEN [trace EXCEPT !.seq = @ \o next(engine, cur).ret.val]
                ELSE [trace EXCEPT !.done = TRUE]
    /\ UNCHANGED <<engine, txs>>

\* another transaction commits its batch between two calls of the cursor
ScanCommit(batch) ==
    /\ trace.mode = "fwd" /\ ~trace.done
    /\ trace.commits < MaxStaged
    /\ engine' = CommitWrite(engine, batch)
    /\ last' = Rec("commit", 2, AccountTrieTable, <<>>, Ok(NoneV), batch)
    /\ trace' = [trace EXCEPT !.stable = StillStored(CommitWrite(engine, batch)),
                              !.commits = @ + 1]
    /\ UNCHANGED <<cur, txs>>

InitScan ==
    /\ \E cf \in Contents(AccountTrieTable) :
          /\ engine = [U \in Tables |-> IF U = AccountTrieTable THEN cf ELSE EmptyCf]
          /\ cur = NewCursor(engine, AccountTrieTable, 1)
    /\ txs = [t \in TxIds |-> IF t = 1 THEN [state |-> "active", write |-> FALSE, batch |-> <<>>]
                              ELSE NoTx]
    /\ last = [op |-> "init", tx |-> 0, table |-> AccountTrieTable, key |-> <<>>,
               sub |-> <<>>, ret |-> Ok(NoneV), pre |-> [T \in Tables |-> EmptyCf],
               batch |-> <<>>]
    /\ trace = [mode |-> "new", seq |-> <<>>, done |-> FALSE, stable |-> {}, commits |-> 0]

NextScan ==
    \/ ScanFirst
    \/ ScanNext
    \/ \E batch \in ScanBatches : ScanCommit(batch)

SpecScan == InitScan /\ [][NextScan]_vars

\* C39: a cursor enumeration tolerates concurrent commits: when other
\* transactions commit puts and deletes while a cursor runs first and then
\* next until None, every entry stored throughout the enumeration is yielded
\* exactly once and the keys yielded are strictly ascending, also when the
\* key the cursor stands on is deleted between two calls.
C39_EnumerationToleratesCommits ==
    trace.mode = "fwd" =>
        /\ \A i \in 2..Len(trace.seq) :
              KeyLess(AccountTrieTable, trace.seq[i - 1][1], trace.seq[i][1])
        /\ trace.done =>
              \A e \in trace.stable :
                 Cardinality({i \in 1..Len(trace.seq) : trace.seq[i] = e}) = 1

-----------------------------------------------------------------------------
(* Storage branch nodes read back. *)

\* the record of a branch node of the model: no children, and its root hash
BranchRecord(node) ==
    [state_mask |-> 0, tree_mask |-> 0, hash_mask |-> 0, hashes |-> <<>>,
     root_hash |-> IF IsSome(root_hash(node)) THEN Some(B256(Unwrap(root_hash(node))))
                   ELSE NoneV]

\* C40: storage branch nodes round-trip through persistence: for every
\* storage branch node (address a, path p, record r) that
\* calculate_state_root_with_updates persisted and that was committed, the
\* storage-trie cursor of a returns from seek_exact(p) the pair (p, r), with
\* the masks, child hashes and root hash of the record the walk emitted.
C40_StorageNodeRoundTrip ==
    (trace.phase = "committed" /\ last.op = "storage_seek_exact")
    => \A i \in 1..Len(trace.storage_nodes) :
          (trace.storage_nodes[i][1] = UpdateAddress /\ trace.storage_nodes[i][2] = last.key)
          => last.ret = Ok(Some(<<last.key, BranchRecord(trace.storage_nodes[i][3])>>))

====
